---- MODULE Spec2Model ----
(***************************************************************************)
(* Model of the pose-analysis core of AI-Health-Trainer:                   *)
(*   src/src/core/pose_estimation.py        (PoseEstimator)                *)
(*   src/src/models/model_manager.py        (ModelManager)                 *)
(*   src/src/models/inference/body_analyzer.py (BodyAnalyzer)              *)
(*   src/src/models/inference/exercise_classifier.py (ExerciseClassifier)  *)
(*   src/src/models/utils/feature_extraction.py                            *)
(*   src/src/utils/progress_tracker.py      (ProgressTracker)              *)
(*                                                                         *)
(* Numbers.  The code works on floats; the model works on integers:        *)
(*   - a coordinate is an integer number of units of 0.05, so the code's   *)
(*     threshold 0.1 is 2 units;                                           *)
(*   - a distance, and the shoulder/hip ratio, are fixed-point numbers in  *)
(*     thousandths (floor), so 1.25 is 1250 and 0.85 is 850;               *)
(*   - an angle is its whole number of degrees (floor).  Every threshold   *)
(*     the code compares an angle with is a whole number t, and            *)
(*     a < t  <=>  floor(a) < t, so no comparison of the code changes;     *)
(*   - NaN is the value the build produces for 0/0 (numpy divides an       *)
(*     array by a zero norm with a warning, not an exception); every       *)
(*     ordered comparison with NaN is false;                               *)
(*   - a visibility, a confidence and a confidence threshold are in        *)
(*     hundredths, so 0.7 is 70.                                           *)
(***************************************************************************)
EXTENDS Integers, Sequences, FiniteSets, TLC

VARIABLES
    body_model,   \* ModelManager.body_model: "None" or "loaded"
    model,        \* BodyAnalyzer.model: "None" or "loaded"
    exercise_model,  \* ModelManager.exercise_model: "None" or "loaded"
    feature_names,   \* ModelManager.feature_names: None or a list of names
    classifier,   \* ExerciseClassifier: its model and its feature_names
    call,         \* the call in progress at the caller: its arguments and result
    first,        \* a call the caller has kept to compare later calls with
    trained_on,   \* the columns the current exercise_model was fitted on
    model_files,  \* the files at exercise_model_path and feature_names_path
    progress_data,  \* ProgressTracker.progress_data: the rows of the DataFrame
    progress_file,  \* the CSV file at ProgressTracker.progress_file
    true_adds     \* the rows the tracker loaded and its adds that returned True,
                  \* counted from the last clear

vars == <<body_model, model, exercise_model, feature_names, classifier, call, first,
          trained_on, model_files, progress_data, progress_file, true_adds>>

\* the state of the model training and of the progress tracker
Training == <<trained_on, model_files>>
Progress == <<progress_data, progress_file, true_adds>>

-----------------------------------------------------------------------------
(* Floats *)

NaN == -1

IsNaN(a) == a = NaN

\* a < b, a >= b on floats: false when either side is NaN
FLt(a, b) == ~IsNaN(a) /\ ~IsNaN(b) /\ a < b
FGe(a, b) == ~IsNaN(a) /\ ~IsNaN(b) /\ a >= b

\* mutant: the larger of the two sides
PyMax(a, b) == IF FLt(a, b) THEN b ELSE a

\* Python's builtin min(a, b): b if b < a else a
PyMin(a, b) == IF FLt(b, a) THEN b ELSE a

Abs(a) == IF a < 0 THEN -a ELSE a

RECURSIVE SqrtSearch(_, _, _)
SqrtSearch(v, lo, hi) ==
    IF lo = hi THEN lo
    ELSE LET mid == (lo + hi + 1) \div 2
         IN  IF mid * mid <= v THEN SqrtSearch(v, mid, hi)
             ELSE SqrtSearch(v, lo, mid - 1)

\* floor(sqrt(v)), v < 2^31
ISqrt(v) == SqrtSearch(v, 0, 46340)

\* cos^2(k degrees) * 10^5, k = 0..90 (index k + 1)
Cos2 ==
    << 100000, 99970, 99878, 99726, 99513, 99240, 98907, 98515, 98063, 97553,
       96985, 96359, 95677, 94940, 94147, 93301, 92402, 91452, 90451, 89401,
       88302, 87157, 85967, 84733, 83457, 82139, 80783, 79389, 77960, 76496,
       75000, 73474, 71919, 70337, 68730, 67101, 65451, 63782, 62096, 60396,
       58682, 56959, 55226, 53488, 51745, 50000, 48255, 46512, 44774, 43041,
       41318, 39604, 37904, 36218, 34549, 32899, 31270, 29663, 28081, 26526,
       25000, 23504, 22040, 20611, 19217, 17861, 16543, 15267, 14033, 12843,
       11698, 10599, 9549, 8548, 7598, 6699, 5853, 5060, 4323, 3641,
       3015, 2447, 1937, 1485, 1093, 760, 487, 274, 122, 30, 0 >>

SetMax(S) == CHOOSE m \in S : \A n \in S : n <= m
SetMin(S) == CHOOSE m \in S : \A n \in S : m <= n

\* floor(degrees(arccos(dot / sqrt(n1sq * n2sq)))) for non-zero vectors;
\* the dot product of two unit vectors is within [-1, 1], which is what
\* np.clip enforces against rounding
ArccosDegrees(dot, n1sq, n2sq) ==
    LET q == dot * dot * 100000
        n == n1sq * n2sq
    IN  IF dot >= 0
        THEN SetMax({k \in 0..90 : Cos2[k + 1] * n >= q})
        ELSE 180 - SetMin({k \in 0..90 : Cos2[k + 1] * n <= q})

-----------------------------------------------------------------------------
(* PoseEstimator: geometry *)

\* mutant: the distance in the image plane, z left out
calculate_distance_xy(p1, p2) ==
    ISqrt(((p1.x - p2.x) * (p1.x - p2.x)
         + (p1.y - p2.y) * (p1.y - p2.y)) * 1000000)

\* _calculate_distance: 3D Euclidean distance, in thousandths of a unit
PoseEstimator_calculate_distance(p1, p2) ==
    ISqrt(((p1.x - p2.x) * (p1.x - p2.x)
         + (p1.y - p2.y) * (p1.y - p2.y)
         + (p1.z - p2.z) * (p1.z - p2.z)) * 1000000)

\* mutant: a zero-length vector is taken to make an angle of 0
calculate_angle_zero_for_degenerate(p1, p2, p3) ==
    LET v1x == p1.x - p2.x
        v1y == p1.y - p2.y
        v2x == p3.x - p2.x
        v2y == p3.y - p2.y
        n1sq == v1x * v1x + v1y * v1y
        n2sq == v2x * v2x + v2y * v2y
    IN  IF n1sq = 0 \/ n2sq = 0
        THEN 0
        ELSE ArccosDegrees(v1x * v2x + v1y * v2y, n1sq, n2sq)

\* mutant: the angle at p2 from x, y and z
PoseEstimator_calculate_angle_xyz(p1, p2, p3) ==
    LET v1x == p1.x - p2.x
        v1y == p1.y - p2.y
        v1z == p1.z - p2.z
        v2x == p3.x - p2.x
        v2y == p3.y - p2.y
        v2z == p3.z - p2.z
        n1sq == v1x * v1x + v1y * v1y + v1z * v1z
        n2sq == v2x * v2x + v2y * v2y + v2z * v2z
    IN  IF n1sq = 0 \/ n2sq = 0
        THEN NaN
        ELSE ArccosDegrees(v1x * v2x + v1y * v2y + v1z * v2z, n1sq, n2sq)

\* _calculate_angle: the angle at p2, from x and y only
PoseEstimator_calculate_angle(p1, p2, p3) ==
    LET v1x == p1.x - p2.x
        v1y == p1.y - p2.y
        v2x == p3.x - p2.x
        v2y == p3.y - p2.y
        n1sq == v1x * v1x + v1y * v1y
        n2sq == v2x * v2x + v2y * v2y
    IN  IF n1sq = 0 \/ n2sq = 0
        THEN NaN
        ELSE ArccosDegrees(v1x * v2x + v1y * v2y, n1sq, n2sq)

\* mutant: the dot product compared without np.abs
check_alignment_signed(p1, p2, p3) ==
    LET v1x == p1.x - p2.x
        v1y == p1.y - p2.y
        v2x == p3.x - p2.x
        v2y == p3.y - p2.y
        n1sq == v1x * v1x + v1y * v1y
        n2sq == v2x * v2x + v2y * v2y
        dot == v1x * v2x + v1y * v2y
    IN  IF n1sq = 0 \/ n2sq = 0
        THEN FALSE
        ELSE dot > 0 /\ dot * dot * 100 > 81 * n1sq * n2sq

\* _check_alignment: |v1_norm . v2_norm| > 0.9; NaN > 0.9 is false
PoseEstimator_check_alignment(p1, p2, p3) ==
    LET v1x == p1.x - p2.x
        v1y == p1.y - p2.y
        v2x == p3.x - p2.x
        v2y == p3.y - p2.y
        n1sq == v1x * v1x + v1y * v1y
        n2sq == v2x * v2x + v2y * v2y
        dot == v1x * v2x + v1y * v2y
    IN  IF n1sq = 0 \/ n2sq = 0
        THEN FALSE
        ELSE dot * dot * 100 > 81 * n1sq * n2sq

-----------------------------------------------------------------------------
(* PoseEstimator: exercise form *)

RECURSIVE JoinNoSpace(_)
\* mutant: "".join(feedback)
JoinNoSpace(feedback) ==
    IF Len(feedback) = 0 THEN ""
    ELSE feedback[1] \o JoinNoSpace(Tail(feedback))

RECURSIVE Join(_)
\* " ".join(feedback)
Join(feedback) ==
    IF Len(feedback) = 0 THEN ""
    ELSE IF Len(feedback) = 1 THEN feedback[1]
    ELSE feedback[1] \o " " \o Join(Tail(feedback))

\* "if cond: feedback.append(msg)"
AppendIf(feedback, cond, msg) == IF cond THEN Append(feedback, msg) ELSE feedback

\* "if not feedback: feedback.append(msg)"
AppendIfEmpty(feedback, msg) == IF Len(feedback) = 0 THEN <<msg>> ELSE feedback

analyze_pushup_form(landmarks) ==
    LET left_shoulder == landmarks["LEFT_SHOULDER"]
        right_shoulder == landmarks["RIGHT_SHOULDER"]
        left_elbow == landmarks["LEFT_ELBOW"]
        right_elbow == landmarks["RIGHT_ELBOW"]
        left_wrist == landmarks["LEFT_WRIST"]
        right_wrist == landmarks["RIGHT_WRIST"]
        left_hip == landmarks["LEFT_HIP"]
        right_hip == landmarks["RIGHT_HIP"]
        left_ankle == landmarks["LEFT_ANKLE"]
        right_ankle == landmarks["RIGHT_ANKLE"]
        left_elbow_angle == PoseEstimator_calculate_angle(left_shoulder, left_elbow, left_wrist)
        right_elbow_angle == PoseEstimator_calculate_angle(right_shoulder, right_elbow, right_wrist)
        elbow_angle == PyMin(left_elbow_angle, right_elbow_angle)
        back_straightness ==
            /\ PoseEstimator_check_alignment(left_shoulder, left_hip, left_ankle)
            /\ PoseEstimator_check_alignment(right_shoulder, right_hip, right_ankle)
        correct == FLt(elbow_angle, 100) /\ back_straightness
        f1 == AppendIf(<<>>, ~back_straightness,
                       "Keep your back straight and core engaged.")
        f2 == AppendIf(f1, FGe(elbow_angle, 100),
                       "Lower your body more, aim for a 90-degree bend in your elbows.")
        feedback == AppendIfEmpty(f2, "Great form! Keep it up.")
    IN  [correct |-> correct,
         feedback |-> Join(feedback),
         metrics |-> [elbow_angle |-> elbow_angle,
                      back_straight |-> back_straightness]]

analyze_squat_form(landmarks) ==
    LET left_hip == landmarks["LEFT_HIP"]
        right_hip == landmarks["RIGHT_HIP"]
        left_knee == landmarks["LEFT_KNEE"]
        right_knee == landmarks["RIGHT_KNEE"]
        left_ankle == landmarks["LEFT_ANKLE"]
        right_ankle == landmarks["RIGHT_ANKLE"]
        left_shoulder == landmarks["LEFT_SHOULDER"]
        right_shoulder == landmarks["RIGHT_SHOULDER"]
        left_knee_angle == PoseEstimator_calculate_angle(left_hip, left_knee, left_ankle)
        right_knee_angle == PoseEstimator_calculate_angle(right_hip, right_knee, right_ankle)
        knee_angle == PyMin(left_knee_angle, right_knee_angle)
        back_straight ==
            /\ Abs(left_shoulder.x - left_hip.x) < 2
            /\ Abs(right_shoulder.x - right_hip.x) < 2
        knees_over_toes ==
            /\ left_knee.x < left_ankle.x
            /\ right_knee.x < right_ankle.x
        correct == FLt(knee_angle, 120) /\ back_straight /\ knees_over_toes
        f1 == AppendIf(<<>>, ~back_straight,
                       "Keep your back straight and chest up.")
        f2 == AppendIf(f1, FGe(knee_angle, 120),
                       "Lower your hips more, aim for a 90-degree bend in your knees.")
        f3 == AppendIf(f2, ~knees_over_toes,
                       "Keep your knees behind your toes.")
        feedback == AppendIfEmpty(f3, "Great squat form! Keep it up.")
    IN  [correct |-> correct,
         feedback |-> Join(feedback),
         metrics |-> [knee_angle |-> knee_angle,
                      back_straight |-> back_straight,
                      knees_over_toes |-> knees_over_toes]]

analyze_plank_form(landmarks) ==
    LET left_shoulder == landmarks["LEFT_SHOULDER"]
        right_shoulder == landmarks["RIGHT_SHOULDER"]
        left_hip == landmarks["LEFT_HIP"]
        right_hip == landmarks["RIGHT_HIP"]
        left_ankle == landmarks["LEFT_ANKLE"]
        right_ankle == landmarks["RIGHT_ANKLE"]
        body_alignment ==
            /\ PoseEstimator_check_alignment(left_shoulder, left_hip, left_ankle)
            /\ PoseEstimator_check_alignment(right_shoulder, right_hip, right_ankle)
        hip_position ==
            /\ Abs(left_hip.y - left_shoulder.y) < 2
            /\ Abs(right_hip.y - right_shoulder.y) < 2
        correct == body_alignment /\ hip_position
        f1 == AppendIf(<<>>, ~body_alignment,
                       "Maintain a straight line from head to heels.")
        f2 == IF ~hip_position
              THEN IF left_hip.y < left_shoulder.y
                   THEN Append(f1, "Lower your hips, they're too high.")
                   ELSE Append(f1, "Raise your hips, they're too low.")
              ELSE f1
        feedback == AppendIfEmpty(f2, "Great plank form! Hold it steady.")
    IN  [correct |-> correct,
         feedback |-> Join(feedback),
         metrics |-> [body_alignment |-> body_alignment,
                      hip_position |-> hip_position]]

\* mutant: the front-knee test demanded of both sides
lunge_knee_ankle_alignment_both(left_knee, left_ankle, right_knee, right_ankle) ==
    /\ Abs(left_knee.x - left_ankle.x) < 2
    /\ Abs(right_knee.x - right_ankle.x) < 2

\* "Check if front knee is aligned with ankle": either side
lunge_knee_ankle_alignment(left_knee, left_ankle, right_knee, right_ankle) ==
    \/ Abs(left_knee.x - left_ankle.x) < 2
    \/ Abs(right_knee.x - right_ankle.x) < 2

analyze_lunge_form(landmarks) ==
    LET left_hip == landmarks["LEFT_HIP"]
        right_hip == landmarks["RIGHT_HIP"]
        left_knee == landmarks["LEFT_KNEE"]
        right_knee == landmarks["RIGHT_KNEE"]
        left_ankle == landmarks["LEFT_ANKLE"]
        right_ankle == landmarks["RIGHT_ANKLE"]
        left_shoulder == landmarks["LEFT_SHOULDER"]
        right_shoulder == landmarks["RIGHT_SHOULDER"]
        left_knee_angle == PoseEstimator_calculate_angle(left_hip, left_knee, left_ankle)
        right_knee_angle == PoseEstimator_calculate_angle(right_hip, right_knee, right_ankle)
        front_knee_angle == PyMin(left_knee_angle, right_knee_angle)
        torso_upright ==
            /\ Abs(left_shoulder.x - left_hip.x) < 2
            /\ Abs(right_shoulder.x - right_hip.x) < 2
        knee_ankle_alignment ==
            lunge_knee_ankle_alignment(left_knee, left_ankle, right_knee, right_ankle)
        correct == FLt(front_knee_angle, 110) /\ torso_upright /\ knee_ankle_alignment
        f1 == AppendIf(<<>>, ~torso_upright,
                       "Keep your torso upright.")
        f2 == AppendIf(f1, FGe(front_knee_angle, 110),
                       "Lower your body more, aim for a 90-degree bend in your front knee.")
        f3 == AppendIf(f2, ~knee_ankle_alignment,
                       "Align your front knee over your ankle, not past your toes.")
        feedback == AppendIfEmpty(f3, "Great lunge form! Keep it up.")
    IN  [correct |-> correct,
         feedback |-> Join(feedback),
         metrics |-> [front_knee_angle |-> front_knee_angle,
                      torso_upright |-> torso_upright,
                      knee_ankle_alignment |-> knee_ankle_alignment]]

\* "not results or not results.pose_landmarks"
NoPose(results) == results.kind = "None" \/ results.kind = "NoLandmarks"

\* mutant: the exercise type dispatched before the frame is looked at
analyze_exercise_form_dispatch_first(results, exercise_type) ==
    IF exercise_type \notin {"Push-up", "Squat", "Plank", "Lunge"}
    THEN [correct |-> FALSE,
          feedback |-> "Analysis for " \o exercise_type \o " not implemented yet."]
    ELSE IF NoPose(results)
    THEN [correct |-> FALSE,
          feedback |-> "No pose detected. Please ensure your full body is visible."]
    ELSE LET landmarks == results.landmark
         IN  IF exercise_type = "Push-up" THEN analyze_pushup_form(landmarks)
             ELSE IF exercise_type = "Squat" THEN analyze_squat_form(landmarks)
             ELSE IF exercise_type = "Plank" THEN analyze_plank_form(landmarks)
             ELSE analyze_lunge_form(landmarks)

\* mutant: the last rule set as the default branch of the dispatch
analyze_exercise_form_default_lunge(results, exercise_type) ==
    IF NoPose(results)
    THEN [correct |-> FALSE,
          feedback |-> "No pose detected. Please ensure your full body is visible."]
    ELSE LET landmarks == results.landmark
         IN  IF exercise_type = "Push-up" THEN analyze_pushup_form(landmarks)
             ELSE IF exercise_type = "Squat" THEN analyze_squat_form(landmarks)
             ELSE IF exercise_type = "Plank" THEN analyze_plank_form(landmarks)
             ELSE analyze_lunge_form(landmarks)

\* mutant: the estimator keeps the landmarks of the frame it analysed last
\* and analyses those again
analyze_exercise_form_stale_frame(results, exercise_type) ==
    IF NoPose(results)
    THEN [correct |-> FALSE,
          feedback |-> "No pose detected. Please ensure your full body is visible."]
    ELSE LET landmarks == IF call.op = "analyze_exercise_form" /\ call.results.kind = "Pose"
                          THEN call.results.landmark
                          ELSE results.landmark
         IN  IF exercise_type = "Push-up" THEN analyze_pushup_form(landmarks)
             ELSE IF exercise_type = "Squat" THEN analyze_squat_form(landmarks)
             ELSE IF exercise_type = "Plank" THEN analyze_plank_form(landmarks)
             ELSE IF exercise_type = "Lunge" THEN analyze_lunge_form(landmarks)
             ELSE [correct |-> FALSE,
                   feedback |-> "Analysis for " \o exercise_type \o " not implemented yet."]

analyze_exercise_form(results, exercise_type) ==
    IF NoPose(results)
    THEN [correct |-> FALSE,
          feedback |-> "No pose detected. Please ensure your full body is visible."]
    ELSE LET landmarks == results.landmark
         IN  IF exercise_type = "Push-up" THEN analyze_pushup_form(landmarks)
             ELSE IF exercise_type = "Squat" THEN analyze_squat_form(landmarks)
             ELSE IF exercise_type = "Plank" THEN analyze_plank_form(landmarks)
             ELSE IF exercise_type = "Lunge" THEN analyze_lunge_form(landmarks)
             ELSE [correct |-> FALSE,
                   feedback |-> "Analysis for " \o exercise_type \o " not implemented yet."]

-----------------------------------------------------------------------------
(* PoseEstimator: body measurements *)

\* mutant: the upper threshold taken inclusively
BodyTypeOfRatio_inclusive(shoulder_hip_ratio) ==
    IF shoulder_hip_ratio >= 1250 THEN "Inverted Triangle"
    ELSE IF shoulder_hip_ratio < 850 THEN "Pear"
    ELSE "Rectangle"

\* the body-type rule of calculate_body_measurements
BodyTypeOfRatio(shoulder_hip_ratio) ==
    IF shoulder_hip_ratio > 1250 THEN "Inverted Triangle"
    ELSE IF shoulder_hip_ratio < 850 THEN "Pear"
    ELSE "Rectangle"

\* {} for an absent frame; a dict is a function from its keys
EmptyDict == [k \in {} |-> 0]

\* mutant: the two sides are added and not halved
calculate_body_measurements_sum(results) ==
    IF NoPose(results)
    THEN EmptyDict
    ELSE LET landmarks == results.landmark
             shoulder_width == PoseEstimator_calculate_distance(landmarks["LEFT_SHOULDER"],
                                                                landmarks["RIGHT_SHOULDER"])
             hip_width == PoseEstimator_calculate_distance(landmarks["LEFT_HIP"],
                                                           landmarks["RIGHT_HIP"])
             leg_length ==
                 PoseEstimator_calculate_distance(landmarks["LEFT_HIP"], landmarks["LEFT_ANKLE"])
                 + PoseEstimator_calculate_distance(landmarks["RIGHT_HIP"], landmarks["RIGHT_ANKLE"])
             arm_length ==
                 PoseEstimator_calculate_distance(landmarks["LEFT_SHOULDER"], landmarks["LEFT_WRIST"])
                 + PoseEstimator_calculate_distance(landmarks["RIGHT_SHOULDER"], landmarks["RIGHT_WRIST"])
             shoulder_hip_ratio ==
                 IF hip_width > 0 THEN (shoulder_width * 1000) \div hip_width ELSE 0
         IN  [shoulder_width |-> shoulder_width,
              hip_width |-> hip_width,
              leg_length |-> leg_length,
              arm_length |-> arm_length,
              shoulder_hip_ratio |-> shoulder_hip_ratio,
              body_type |-> BodyTypeOfRatio(shoulder_hip_ratio)]

calculate_body_measurements(results) ==
    IF NoPose(results)
    THEN EmptyDict
    ELSE LET landmarks == results.landmark
             left_shoulder == landmarks["LEFT_SHOULDER"]
             right_shoulder == landmarks["RIGHT_SHOULDER"]
             left_hip == landmarks["LEFT_HIP"]
             right_hip == landmarks["RIGHT_HIP"]
             left_ankle == landmarks["LEFT_ANKLE"]
             right_ankle == landmarks["RIGHT_ANKLE"]
             left_wrist == landmarks["LEFT_WRIST"]
             right_wrist == landmarks["RIGHT_WRIST"]
             shoulder_width == PoseEstimator_calculate_distance(left_shoulder, right_shoulder)
             hip_width == PoseEstimator_calculate_distance(left_hip, right_hip)
             left_leg_length == PoseEstimator_calculate_distance(left_hip, left_ankle)
             right_leg_length == PoseEstimator_calculate_distance(right_hip, right_ankle)
             leg_length == (left_leg_length + right_leg_length) \div 2
             left_arm_length == PoseEstimator_calculate_distance(left_shoulder, left_wrist)
             right_arm_length == PoseEstimator_calculate_distance(right_shoulder, right_wrist)
             arm_length == (left_arm_length + right_arm_length) \div 2
             shoulder_hip_ratio ==
                 IF hip_width > 0 THEN (shoulder_width * 1000) \div hip_width ELSE 0
         IN  [shoulder_width |-> shoulder_width,
              hip_width |-> hip_width,
              leg_length |-> leg_length,
              arm_length |-> arm_length,
              shoulder_hip_ratio |-> shoulder_hip_ratio,
              body_type |-> BodyTypeOfRatio(shoulder_hip_ratio)]

-----------------------------------------------------------------------------
(* Body-type classification: ModelManager and BodyAnalyzer *)

\* dict.get(key, default)
Get(d, key, default) == IF key \in DOMAIN d THEN d[key] ELSE default

\* mutant: the copy of the rule in ModelManager drifted to 0.8
classify_body_type_drifted(bm, measurements, predict) ==
    IF bm = "None"
    THEN LET ratio == Get(measurements, "shoulder_hip_ratio", 0)
         IN  IF ratio > 1250 THEN "Inverted Triangle"
             ELSE IF ratio < 800 THEN "Pear"
             ELSE "Rectangle"
    ELSE IF predict.raises
         THEN "Unknown"
         ELSE predict.label

\* ModelManager.classify_body_type; predict is what body_model.predict does
\* when it is called: it raises, or returns a label
ModelManager_classify_body_type(bm, measurements, predict) ==
    IF bm = "None"
    THEN LET ratio == Get(measurements, "shoulder_hip_ratio", 0)
         IN  IF ratio > 1250 THEN "Inverted Triangle"
             ELSE IF ratio < 850 THEN "Pear"
             ELSE "Rectangle"
    ELSE IF predict.raises
         THEN "Unknown"
         ELSE predict.label

\* BodyAnalyzer._rule_based_classification
rule_based_classification(measurements) ==
    LET ratio == Get(measurements, "shoulder_hip_ratio", 0)
    IN  IF ratio > 1250 THEN "Inverted Triangle"
        ELSE IF ratio < 850 THEN "Pear"
        ELSE "Rectangle"

\* BodyAnalyzer._calculate_metrics (fixed-point, thousandths; a numpy 0/0 is NaN)
calculate_metrics(measurements) ==
    LET height_estimate == (Get(measurements, "leg_length", 0) * 3) \div 2
        m1 == IF "leg_length" \in DOMAIN measurements /\ height_estimate > 0
              THEN [k \in {"shoulder_height_ratio"} |->
                       (Get(measurements, "shoulder_width", 0) * 1000) \div height_estimate]
              ELSE EmptyDict
        m2 == IF /\ "arm_length" \in DOMAIN measurements
                 /\ "leg_length" \in DOMAIN measurements
                 /\ height_estimate > 0
              THEN [k \in {"arm_height_ratio"} |->
                       (Get(measurements, "arm_length", 0) * 1000) \div height_estimate]
              ELSE EmptyDict
        torso_length == Get(measurements, "torso_length", 0)
        leg == Get(measurements, "leg_length", 1000)
        upper_lower_ratio == IF leg = 0 THEN NaN ELSE (torso_length * 1000) \div leg
    IN  [k \in DOMAIN m1 \cup DOMAIN m2 \cup {"upper_lower_ratio"} |->
            IF k \in DOMAIN m1 THEN m1[k]
            ELSE IF k \in DOMAIN m2 THEN m2[k]
            ELSE upper_lower_ratio]

\* BodyAnalyzer.analyze_body_type: (body_type, metrics)
BodyAnalyzer_analyze_body_type(mdl, measurements, predict) ==
    LET metrics == calculate_metrics(measurements)
        body_type ==
            IF mdl = "None"
            THEN rule_based_classification(measurements)
            ELSE IF predict.raises
                 THEN rule_based_classification(measurements)
                 ELSE predict.label
    IN  <<body_type, metrics>>

-----------------------------------------------------------------------------
(* Feature extraction: feature_extraction.py, PoseEstimator.extract_landmarks *)

\* mediapipe's PoseLandmark enum: the place of a joint in the landmark list
PoseLandmark ==
    ("LEFT_SHOULDER" :> 11) @@ ("RIGHT_SHOULDER" :> 12) @@
    ("LEFT_ELBOW" :> 13) @@ ("RIGHT_ELBOW" :> 14) @@
    ("LEFT_WRIST" :> 15) @@ ("RIGHT_WRIST" :> 16) @@
    ("LEFT_HIP" :> 23) @@ ("RIGHT_HIP" :> 24) @@
    ("LEFT_KNEE" :> 25) @@ ("RIGHT_KNEE" :> 26) @@
    ("LEFT_ANKLE" :> 27) @@ ("RIGHT_ANKLE" :> 28)

\* f"landmark_{idx}_{field}"
LandmarkFeatureName(idx, field) == "landmark_" \o ToString(idx) \o "_" \o field

\* the landmark and the attribute behind each such name, for the 33 places
\* of mediapipe's list
LandmarkFeatureSource ==
    LET pairs == (0..32) \X {"x", "y", "z", "visibility"}
    IN  [name \in { LandmarkFeatureName(pr[1], pr[2]) : pr \in pairs } |->
            CHOOSE pr \in pairs : name = LandmarkFeatureName(pr[1], pr[2])]

\* the four entries per landmark that the enumerate loop writes; a list is a
\* function on 0 .. len - 1
LandmarkFeatures(landmarks) ==
    [name \in { n \in DOMAIN LandmarkFeatureSource :
                    LandmarkFeatureSource[n][1] \in DOMAIN landmarks } |->
        landmarks[LandmarkFeatureSource[name][1]][LandmarkFeatureSource[name][2]]]

\* dict.update: the entries of b over those of a
Update(a, b) ==
    [k \in DOMAIN a \cup DOMAIN b |-> IF k \in DOMAIN b THEN b[k] ELSE a[k]]

\* landmarks[i] raises IndexError when the list is too short
HasLandmarks(landmarks, joints) ==
    \A j \in joints : PoseLandmark[j] \in DOMAIN landmarks

\* mutant: the vectors built from x, y and z
calculate_angle_3d(p1, p2, p3) ==
    LET v1 == <<p1.x - p2.x, p1.y - p2.y, p1.z - p2.z>>
        v2 == <<p3.x - p2.x, p3.y - p2.y, p3.z - p2.z>>
        norm1sq == v1[1] * v1[1] + v1[2] * v1[2] + v1[3] * v1[3]
        norm2sq == v2[1] * v2[1] + v2[2] * v2[2] + v2[3] * v2[3]
    IN  IF norm1sq = 0 \/ norm2sq = 0
        THEN NaN
        ELSE ArccosDegrees(v1[1] * v2[1] + v1[2] * v2[2] + v1[3] * v2[3],
                           norm1sq, norm2sq)

\* calculate_angle: the angle at p2, from x and y only
calculate_angle(p1, p2, p3) ==
    LET v1 == <<p1.x - p2.x, p1.y - p2.y>>
        v2 == <<p3.x - p2.x, p3.y - p2.y>>
        norm1sq == v1[1] * v1[1] + v1[2] * v1[2]
        norm2sq == v2[1] * v2[1] + v2[2] * v2[2]
    IN  IF norm1sq = 0 \/ norm2sq = 0
        THEN NaN
        ELSE ArccosDegrees(v1[1] * v2[1] + v1[2] * v2[2], norm1sq, norm2sq)

\* calculate_distance: 3D Euclidean distance, in thousandths of a unit
calculate_distance(p1, p2) ==
    ISqrt(((p1.x - p2.x) * (p1.x - p2.x)
         + (p1.y - p2.y) * (p1.y - p2.y)
         + (p1.z - p2.z) * (p1.z - p2.z)) * 1000000)

\* mutant: an undefined angle is left out of the dict
calculate_angles_defined_only(landmarks) ==
    IF ~HasLandmarks(landmarks, DOMAIN PoseLandmark)
    THEN EmptyDict
    ELSE LET lm(j) == landmarks[PoseLandmark[j]]
             angles ==
                 [right_elbow_angle |->
                      calculate_angle(lm("RIGHT_SHOULDER"), lm("RIGHT_ELBOW"), lm("RIGHT_WRIST")),
                  left_elbow_angle |->
                      calculate_angle(lm("LEFT_SHOULDER"), lm("LEFT_ELBOW"), lm("LEFT_WRIST")),
                  right_knee_angle |->
                      calculate_angle(lm("RIGHT_HIP"), lm("RIGHT_KNEE"), lm("RIGHT_ANKLE")),
                  left_knee_angle |->
                      calculate_angle(lm("LEFT_HIP"), lm("LEFT_KNEE"), lm("LEFT_ANKLE")),
                  torso_angle |->
                      calculate_angle(lm("RIGHT_SHOULDER"), lm("RIGHT_HIP"), lm("RIGHT_KNEE"))]
         IN  [k \in {n \in DOMAIN angles : ~IsNaN(angles[n])} |-> angles[k]]

\* calculate_angles: five joint angles, or {} when anything raised
calculate_angles(landmarks) ==
    IF ~HasLandmarks(landmarks, DOMAIN PoseLandmark)
    THEN EmptyDict
    ELSE LET lm(j) == landmarks[PoseLandmark[j]]
         IN  [right_elbow_angle |->
                  calculate_angle(lm("RIGHT_SHOULDER"), lm("RIGHT_ELBOW"), lm("RIGHT_WRIST")),
              left_elbow_angle |->
                  calculate_angle(lm("LEFT_SHOULDER"), lm("LEFT_ELBOW"), lm("LEFT_WRIST")),
              right_knee_angle |->
                  calculate_angle(lm("RIGHT_HIP"), lm("RIGHT_KNEE"), lm("RIGHT_ANKLE")),
              left_knee_angle |->
                  calculate_angle(lm("LEFT_HIP"), lm("LEFT_KNEE"), lm("LEFT_ANKLE")),
              torso_angle |->
                  calculate_angle(lm("RIGHT_SHOULDER"), lm("RIGHT_HIP"), lm("RIGHT_KNEE"))]

\* calculate_distances: five distances, or {} when anything raised
calculate_distances(landmarks) ==
    IF ~HasLandmarks(landmarks, {"LEFT_SHOULDER", "RIGHT_SHOULDER", "LEFT_HIP",
                                 "RIGHT_HIP", "LEFT_WRIST", "RIGHT_WRIST",
                                 "LEFT_ANKLE", "RIGHT_ANKLE"})
    THEN EmptyDict
    ELSE LET lm(j) == landmarks[PoseLandmark[j]]
         IN  [shoulder_width |->
                  calculate_distance(lm("LEFT_SHOULDER"), lm("RIGHT_SHOULDER")),
              hip_width |->
                  calculate_distance(lm("LEFT_HIP"), lm("RIGHT_HIP")),
              torso_length |->
                  calculate_distance(lm("RIGHT_SHOULDER"), lm("RIGHT_HIP")),
              arm_length |->
                  (calculate_distance(lm("RIGHT_SHOULDER"), lm("RIGHT_WRIST"))
                   + calculate_distance(lm("LEFT_SHOULDER"), lm("LEFT_WRIST"))) \div 2,
              leg_length |->
                  (calculate_distance(lm("RIGHT_HIP"), lm("RIGHT_ANKLE"))
                   + calculate_distance(lm("LEFT_HIP"), lm("LEFT_ANKLE"))) \div 2]

\* extract_pose_features.  landmarks is None (enumerate raises, {} comes
\* back) or a list of landmarks
extract_pose_features(landmarks) ==
    IF landmarks.kind = "None"
    THEN EmptyDict
    ELSE Update(Update(LandmarkFeatures(landmarks.items),
                       calculate_angles(landmarks.items)),
                calculate_distances(landmarks.items))

\* results.pose_landmarks.landmark as the list mediapipe gives: 33 landmarks,
\* each with x, y, z and visibility; those the frame does not place are at
\* the origin, not visible
PoseLandmarkList(results) ==
    [idx \in 0..32 |->
        IF \E j \in DOMAIN PoseLandmark : PoseLandmark[j] = idx
        THEN LET j == CHOOSE n \in DOMAIN PoseLandmark : PoseLandmark[n] = idx
                 p == results.landmark[j]
             IN  [x |-> p.x, y |-> p.y, z |-> p.z, visibility |-> 99]
        ELSE [x |-> 0, y |-> 0, z |-> 0, visibility |-> 0]]

\* mutant: an absent frame gives the entries of 33 landmarks, all 0
extract_landmarks_zero_filled(results) ==
    IF NoPose(results)
    THEN LandmarkFeatures([idx \in 0..32 |-> [x |-> 0, y |-> 0, z |-> 0, visibility |-> 0]])
    ELSE LandmarkFeatures(PoseLandmarkList(results))

\* PoseEstimator.extract_landmarks: {} for an absent frame, else the four
\* entries per landmark
extract_landmarks(results) ==
    IF NoPose(results)
    THEN EmptyDict
    ELSE LandmarkFeatures(PoseLandmarkList(results))

-----------------------------------------------------------------------------
(* Exercise classification: ExerciseClassifier and ModelManager *)

\* the failure result of both classifiers
Unknown == <<"Unknown", 0>>

\* what reached model.predict: nothing, or the one-row frame it was given
NotCalled == [called |-> FALSE, row |-> EmptyDict]
CalledWith(row) == [called |-> TRUE, row |-> row]

\* features_df[self.feature_names] in classify_exercise: the names the vector
\* lacks are added as columns of 0 first
ExerciseClassifier_model_input(names, features) ==
    LET columns == DOMAIN features
        missing_features == names.names \ columns
        features_df == [k \in columns \cup missing_features |->
                           IF k \in columns THEN features[k] ELSE 0]
    IN  [k \in names.names |-> features_df[k]]

\* mutant: a missing model answers with a default label
classify_exercise_default_label(clf, pose_landmarks, predict) ==
    IF clf.model = "None" \/ clf.feature_names.kind = "None"
    THEN [model_input |-> NotCalled, ret |-> <<"Push-up", 0>>]
    ELSE IF pose_landmarks.kind = "None"
    THEN [model_input |-> NotCalled, ret |-> Unknown]
    ELSE LET features == extract_pose_features(pose_landmarks.landmark)
             model_input == ExerciseClassifier_model_input(clf.feature_names, features)
         IN  [model_input |-> CalledWith(model_input),
              ret |-> IF predict.raises THEN Unknown
                      ELSE <<predict.label, predict.confidence>>]

\* ExerciseClassifier.classify_exercise.  pose_landmarks is None (reading
\* .landmark raises inside the try) or holds a landmark list; the result is
\* the returned pair, with what the model was called with
ExerciseClassifier_classify_exercise(clf, pose_landmarks, predict) ==
    IF clf.model = "None" \/ clf.feature_names.kind = "None"
    THEN [model_input |-> NotCalled, ret |-> Unknown]
    ELSE IF pose_landmarks.kind = "None"
    THEN [model_input |-> NotCalled, ret |-> Unknown]
    ELSE LET features == extract_pose_features(pose_landmarks.landmark)
             model_input == ExerciseClassifier_model_input(clf.feature_names, features)
         IN  [model_input |-> CalledWith(model_input),
              ret |-> IF predict.raises THEN Unknown
                      ELSE <<predict.label, predict.confidence>>]

\* ModelManager.identify_exercise: df[self.feature_names] raises KeyError
\* when the vector lacks one of the names, and predict raises, if for
\* nothing else, on a frame that has no column at all
ModelManager_identify_exercise(em, names, features, predict) ==
    IF em = "None"
    THEN [model_input |-> NotCalled, ret |-> Unknown]
    ELSE IF names.kind # "None" /\ ~(names.names \subseteq DOMAIN features)
    THEN [model_input |-> NotCalled, ret |-> Unknown]
    ELSE LET df == IF names.kind # "None"
                   THEN [k \in names.names |-> features[k]]
                   ELSE features
         IN  [model_input |-> CalledWith(df),
              ret |-> IF predict.raises \/ DOMAIN df = {} THEN Unknown
                      ELSE <<predict.label, predict.confidence>>]

\* the default of is_valid_exercise's threshold, 0.7
DefaultThreshold == 70

\* mutant: a confidence equal to the threshold is not enough
is_valid_exercise_strict(exercise, confidence, threshold) ==
    exercise # "Unknown" /\ confidence > threshold

\* ExerciseClassifier.is_valid_exercise
is_valid_exercise(exercise, confidence, threshold) ==
    exercise # "Unknown" /\ confidence >= threshold

-----------------------------------------------------------------------------
(* Inputs *)

\* the right side of the body is at most this many units to the right of the
\* left side in the image
MaxShift == 1

\* callers' measurement dicts carry ratios 0, 0.05, ... up to this many steps
MaxRatioStep == 30

Pt(x, y, z) == [x |-> x, y |-> y, z |-> z]

\* shoulder and hip of one side, (x, y)
Torsos ==
    { [s |-> <<4, 4>>, h |-> <<4, 8>>],     \* upright
      [s |-> <<6, 4>>, h |-> <<4, 8>>],     \* leaning: shoulder 0.1 off the hip
      [s |-> <<4, 4>>, h |-> <<8, 5>>],     \* horizontal, hips level
      [s |-> <<4, 4>>, h |-> <<8, 2>>] }    \* horizontal, hips 0.1 above

\* elbow, wrist, knee and ankle of one side, (x, y)
Limbs ==
    { [e |-> <<4, 6>>, w |-> <<6, 6>>, k |-> <<2, 10>>, a |-> <<4, 12>>],
      [e |-> <<4, 6>>, w |-> <<4, 8>>, k |-> <<4, 10>>, a |-> <<4, 12>>],
      [e |-> <<4, 4>>, w |-> <<4, 6>>, k |-> <<4, 8>>,  a |-> <<5, 12>>],
      [e |-> <<8, 7>>, w |-> <<7, 9>>, k |-> <<3, 10>>, a |-> <<4, 12>>],
      [e |-> <<4, 6>>, w |-> <<6, 6>>, k |-> <<10, 5>>, a |-> <<12, 6>>],
      [e |-> <<4, 6>>, w |-> <<4, 8>>, k |-> <<10, 6>>, a |-> <<12, 6>>],
      [e |-> <<4, 6>>, w |-> <<6, 6>>, k |-> <<7, 9>>,  a |-> <<6, 12>>] }

\* depth (z) of the right shoulder and the right hip; the left side is at z = 0
Depths ==
    { [s |-> 5, h |-> 0], [s |-> 5, h |-> 4], [s |-> 17, h |-> 20] }

\* a person seen from above or below: the hip is behind the shoulder
CollapsedTorso == [s |-> <<4, 4>>, h |-> <<4, 4>>]

\* the points the geometry functions are called with lie on a grid of this size
MaxGrid == 2

GridPoints == { [x |-> x, y |-> y, z |-> 0] : x \in 0..MaxGrid, y \in 0..MaxGrid }

\* the depths the first point of an angle or alignment call is given
GridDepths == {0, MaxGrid}

\* the landmarks the distance functions are called with: in front of the
\* image plane or in it, seen or hidden
DistancePoints ==
    { [x |-> x, y |-> y, z |-> z, visibility |-> v] :
        x \in 0..MaxGrid, y \in 0..MaxGrid, z \in GridDepths, v \in {0, 99} }

Landmarks(lt, ll, rt, rl, d, shift) ==
    [j \in {"LEFT_SHOULDER", "RIGHT_SHOULDER", "LEFT_ELBOW", "RIGHT_ELBOW",
            "LEFT_WRIST", "RIGHT_WRIST", "LEFT_HIP", "RIGHT_HIP",
            "LEFT_KNEE", "RIGHT_KNEE", "LEFT_ANKLE", "RIGHT_ANKLE"} |->
        CASE j = "LEFT_SHOULDER"  -> Pt(lt.s[1], lt.s[2], 0)
          [] j = "LEFT_HIP"       -> Pt(lt.h[1], lt.h[2], 0)
          [] j = "LEFT_ELBOW"     -> Pt(ll.e[1], ll.e[2], 0)
          [] j = "LEFT_WRIST"     -> Pt(ll.w[1], ll.w[2], 0)
          [] j = "LEFT_KNEE"      -> Pt(ll.k[1], ll.k[2], 0)
          [] j = "LEFT_ANKLE"     -> Pt(ll.a[1], ll.a[2], 0)
          [] j = "RIGHT_SHOULDER" -> Pt(rt.s[1] + shift, rt.s[2], d.s)
          [] j = "RIGHT_HIP"      -> Pt(rt.h[1] + shift, rt.h[2], d.h)
          [] j = "RIGHT_ELBOW"    -> Pt(rl.e[1] + shift, rl.e[2], 0)
          [] j = "RIGHT_WRIST"    -> Pt(rl.w[1] + shift, rl.w[2], 0)
          [] j = "RIGHT_KNEE"     -> Pt(rl.k[1] + shift, rl.k[2], 0)
          [] j = "RIGHT_ANKLE"    -> Pt(rl.a[1] + shift, rl.a[2], 0)]

\* what process_image hands on: None (an exception), results without
\* pose_landmarks, or results with the landmarks of a detected person
Results ==
    { [kind |-> "None", landmark |-> EmptyDict],
      [kind |-> "NoLandmarks", landmark |-> EmptyDict] }
    \cup
    { [kind |-> "Pose", landmark |-> Landmarks(lt, ll, rt, rl, d, shift)] :
        lt \in Torsos, ll \in Limbs, rt \in Torsos, rl \in Limbs,
        d \in Depths, shift \in 0..MaxShift }
    \cup
    { [kind |-> "Pose",
       landmark |-> Landmarks(CollapsedTorso, l, CollapsedTorso, l, [s |-> 5, h |-> 0], 0)] :
        l \in Limbs }

ExerciseTypes == {"Push-up", "Squat", "Plank", "Lunge", "Deadlift", "squat"}

\* measurement dicts a caller passes: what calculate_body_measurements
\* returned, or a dict of its own that holds the ratio alone
MeasurementInputs ==
    { calculate_body_measurements(r) : r \in Results }
    \cup
    { [k \in {"shoulder_hip_ratio"} |-> 50 * i] : i \in 0..MaxRatioStep }

\* what the loaded classifier's predict does
PredictOutcomes ==
    { [raises |-> TRUE, label |-> ""] }
    \cup
    { [raises |-> FALSE, label |-> l] :
        l \in {"Inverted Triangle", "Pear", "Rectangle", "Hourglass"} }

NoPredict == [raises |-> FALSE, label |-> ""]

\* what a caller hands to extract_pose_features: None, an empty list, or the
\* landmark list of a detected person
LandmarkLists ==
    { [kind |-> "None", items |-> EmptyDict],
      [kind |-> "list", items |-> EmptyDict] }
    \cup
    { [kind |-> "list", items |-> PoseLandmarkList(r)] :
        r \in { q \in Results : q.kind = "Pose" } }

\* no list of feature names: the file was not there
NoFeatureNames == [kind |-> "None", names |-> {}]

\* the frames the exercise classifiers are tried on: a person standing
\* upright and one seen from above, the limbs in each position
ExerciseFrames ==
    { [kind |-> "Pose",
       landmark |-> Landmarks(t, l, t, l, [s |-> 5, h |-> 0], 0)] :
        t \in {CollapsedTorso, [s |-> <<4, 4>>, h |-> <<4, 8>>]}, l \in Limbs }

\* results.pose_landmarks as classify_exercise gets it: None, or an object
\* whose .landmark is the list (empty when the caller built it so)
PoseLandmarksInputs ==
    { [kind |-> "None", landmark |-> [kind |-> "None", items |-> EmptyDict]],
      [kind |-> "landmarks", landmark |-> [kind |-> "list", items |-> EmptyDict]] }
    \cup
    { [kind |-> "landmarks",
       landmark |-> [kind |-> "list", items |-> PoseLandmarkList(r)]] :
        r \in ExerciseFrames }

\* the feature dicts a caller hands to identify_exercise: {}, what
\* extract_landmarks gave, or what extract_pose_features gave
FeatureVectors ==
    { EmptyDict }
    \cup { extract_landmarks(r) : r \in ExerciseFrames }
    \cup { extract_pose_features([kind |-> "list", items |-> PoseLandmarkList(r)]) :
             r \in ExerciseFrames }

AngleNames ==
    {"right_elbow_angle", "left_elbow_angle", "right_knee_angle",
     "left_knee_angle", "torso_angle"}

DistanceNames ==
    {"shoulder_width", "hip_width", "torso_length", "arm_length", "leg_length"}

\* the lists a feature_names.pkl can hold, X.columns of the training data:
\* the columns extract_pose_features gives, those extract_landmarks gives,
\* or columns of a data set that has a feature neither computes
FeatureNameLists ==
    { [kind |-> "list", names |-> DOMAIN LandmarkFeatureSource \cup AngleNames
                                     \cup DistanceNames],
      [kind |-> "list", names |-> DOMAIN LandmarkFeatureSource],
      [kind |-> "list", names |-> {"landmark_11_x", "left_elbow_angle", "hip_angle"}] }

\* what the loaded exercise model's predict / predict_proba do
ExercisePredictOutcomes ==
    { [raises |-> TRUE, label |-> "", confidence |-> 0] }
    \cup
    { [raises |-> FALSE, label |-> l, confidence |-> c] :
        l \in {"Squat", "Plank"}, c \in {65, 70, 71, 100} }

NoExercisePredict == [raises |-> FALSE, label |-> "", confidence |-> 0]

\* the arguments is_valid_exercise is called with
ExerciseLabels == {"Unknown", "Squat", "Plank"}
Confidences == {0, 50, 65, 70, 71, 95, 100}
Thresholds == {-5, 0, 50, 65, 70, 71, 100, 105}

\* the frames one PoseEstimator is given again and again
RepeatResults ==
    { [kind |-> "None", landmark |-> EmptyDict] }
    \cup { r \in ExerciseFrames : r.landmark["LEFT_HIP"].y # r.landmark["LEFT_SHOULDER"].y }

-----------------------------------------------------------------------------
(* State machine *)

\* the files at exercise_model_path and feature_names_path hold what was
\* dumped last: a model fitted on some columns, a list of names
ModelFiles(em, columns, names) ==
    [exercise_model |-> [saved |-> em # "None", trained_on |-> columns],
     feature_names |-> [saved |-> names.kind # "None", names |-> names]]

\* neither model file is there
NoModelFiles == ModelFiles("None", NoFeatureNames, NoFeatureNames)

\* no progress_data.csv in the data directory
NoFile == [exists |-> FALSE, rows |-> << >>]

Idle == [op |-> "idle"]

\* ModelManager.__init__ / BodyAnalyzer.__init__: each loads its model file
\* if the file is there
Init ==
    /\ body_model \in {"None", "loaded"}
    /\ model \in {"None", "loaded"}
    /\ exercise_model = "None"
    /\ feature_names = NoFeatureNames
    /\ classifier = [model |-> "None", feature_names |-> NoFeatureNames]
    /\ call = Idle
    /\ first = Idle
    /\ trained_on = NoFeatureNames
    /\ model_files = NoModelFiles
    /\ progress_data = << >>
    /\ progress_file = NoFile
    /\ true_adds = 0

Call_analyze_exercise_form ==
    /\ call.op = "idle"
    /\ \E results \in Results, exercise_type \in ExerciseTypes :
        call' = [op |-> "analyze_exercise_form",
                 results |-> results,
                 exercise_type |-> exercise_type,
                 ret |-> analyze_exercise_form(results, exercise_type)]
    /\ UNCHANGED <<body_model, model, exercise_model, feature_names, classifier, first,
                 Training, Progress>>

Call_calculate_body_measurements ==
    /\ call.op = "idle"
    /\ \E results \in Results :
        call' = [op |-> "calculate_body_measurements",
                 results |-> results,
                 ret |-> calculate_body_measurements(results)]
    /\ UNCHANGED <<body_model, model, exercise_model, feature_names, classifier, first,
                 Training, Progress>>

Call_classify_body_type ==
    /\ call.op = "idle"
    /\ \E measurements \in MeasurementInputs :
       \E predict \in IF body_model = "None" THEN {NoPredict} ELSE PredictOutcomes :
        call' = [op |-> "classify_body_type",
                 measurements |-> measurements,
                 predict |-> predict,
                 ret |-> ModelManager_classify_body_type(body_model, measurements, predict)]
    /\ UNCHANGED <<body_model, model, exercise_model, feature_names, classifier, first,
                 Training, Progress>>

Call_analyze_body_type ==
    /\ call.op = "idle"
    /\ \E measurements \in MeasurementInputs :
       \E predict \in IF model = "None" THEN {NoPredict} ELSE PredictOutcomes :
        call' = [op |-> "analyze_body_type",
                 measurements |-> measurements,
                 predict |-> predict,
                 ret |-> BodyAnalyzer_analyze_body_type(model, measurements, predict)]
    /\ UNCHANGED <<body_model, model, exercise_model, feature_names, classifier, first,
                 Training, Progress>>

Call_extract_landmarks ==
    /\ call.op = "idle"
    /\ \E results \in Results :
        call' = [op |-> "extract_landmarks",
                 results |-> results,
                 ret |-> extract_landmarks(results)]
    /\ UNCHANGED <<body_model, model, exercise_model, feature_names, classifier, first,
                 Training, Progress>>

Call_extract_pose_features ==
    /\ call.op = "idle"
    /\ \E landmarks \in LandmarkLists :
        call' = [op |-> "extract_pose_features",
                 landmarks |-> landmarks,
                 ret |-> extract_pose_features(landmarks)]
    /\ UNCHANGED <<body_model, model, exercise_model, feature_names, classifier, first,
                 Training, Progress>>

\* the geometry functions, called as the analyzers and the feature
\* extractor call them
Call_check_alignment ==
    /\ call.op = "idle"
    /\ \E q \in GridPoints, z \in GridDepths, p2 \in GridPoints, p3 \in GridPoints :
        LET p1 == [q EXCEPT !.z = z]
        IN  call' = [op |-> "_check_alignment", p1 |-> p1, p2 |-> p2, p3 |-> p3,
                     ret |-> PoseEstimator_check_alignment(p1, p2, p3)]
    /\ UNCHANGED <<body_model, model, exercise_model, feature_names, classifier, first,
                 Training, Progress>>

Call_PoseEstimator_calculate_angle ==
    /\ call.op = "idle"
    /\ \E q \in GridPoints, z \in GridDepths, p2 \in GridPoints, p3 \in GridPoints :
        LET p1 == [q EXCEPT !.z = z]
        IN  call' = [op |-> "_calculate_angle", p1 |-> p1, p2 |-> p2, p3 |-> p3,
                     ret |-> PoseEstimator_calculate_angle(p1, p2, p3)]
    /\ UNCHANGED <<body_model, model, exercise_model, feature_names, classifier, first,
                 Training, Progress>>

Call_calculate_angle ==
    /\ call.op = "idle"
    /\ \E q \in GridPoints, z \in GridDepths, p2 \in GridPoints, p3 \in GridPoints :
        LET p1 == [q EXCEPT !.z = z]
        IN  call' = [op |-> "calculate_angle", p1 |-> p1, p2 |-> p2, p3 |-> p3,
                     ret |-> calculate_angle(p1, p2, p3)]
    /\ UNCHANGED <<body_model, model, exercise_model, feature_names, classifier, first,
                 Training, Progress>>

Call_PoseEstimator_calculate_distance ==
    /\ call.op = "idle"
    /\ \E p1 \in DistancePoints, p2 \in DistancePoints :
        call' = [op |-> "_calculate_distance", p1 |-> p1, p2 |-> p2,
                 ret |-> PoseEstimator_calculate_distance(p1, p2)]
    /\ UNCHANGED <<body_model, model, exercise_model, feature_names, classifier, first,
                 Training, Progress>>

Call_calculate_distance ==
    /\ call.op = "idle"
    /\ \E p1 \in DistancePoints, p2 \in DistancePoints :
        call' = [op |-> "calculate_distance", p1 |-> p1, p2 |-> p2,
                 ret |-> calculate_distance(p1, p2)]
    /\ UNCHANGED <<body_model, model, exercise_model, feature_names, classifier, first,
                 Training, Progress>>

\* the caller is done with the result
Return ==
    /\ call.op # "idle"
    /\ call' = Idle
    /\ UNCHANGED <<body_model, model, exercise_model, feature_names, classifier, first,
                 Training, Progress>>

\* ExerciseClassifier.__init__ and ModelManager.__init__: each loads its
\* exercise model and its feature names from its own files, if they are there
InitExercise ==
    /\ body_model = "None"
    /\ model = "None"
    /\ exercise_model \in {"None", "loaded"}
    /\ feature_names \in {NoFeatureNames} \cup FeatureNameLists
    /\ classifier \in [model : {"None", "loaded"},
                       feature_names : {NoFeatureNames} \cup FeatureNameLists]
    /\ call = Idle
    /\ first = Idle
    /\ trained_on = feature_names
    /\ model_files = ModelFiles(exercise_model, trained_on, feature_names)
    /\ progress_data = << >>
    /\ progress_file = NoFile
    /\ true_adds = 0

Call_classify_exercise ==
    /\ call.op = "idle"
    /\ \E pose_landmarks \in PoseLandmarksInputs :
       \E predict \in IF classifier.model = "None"
                      THEN {NoExercisePredict} ELSE ExercisePredictOutcomes :
        LET r == ExerciseClassifier_classify_exercise(classifier, pose_landmarks, predict)
        IN  call' = [op |-> "classify_exercise",
                     pose_landmarks |-> pose_landmarks,
                     predict |-> predict,
                     model_input |-> r.model_input,
                     ret |-> r.ret]
    /\ UNCHANGED <<body_model, model, exercise_model, feature_names, classifier, first,
                 Training, Progress>>

Call_identify_exercise ==
    /\ call.op = "idle"
    /\ \E features \in FeatureVectors :
       \E predict \in IF exercise_model = "None"
                      THEN {NoExercisePredict} ELSE ExercisePredictOutcomes :
        LET r == ModelManager_identify_exercise(exercise_model, feature_names,
                                                features, predict)
        IN  call' = [op |-> "identify_exercise",
                     features |-> features,
                     predict |-> predict,
                     model_input |-> r.model_input,
                     ret |-> r.ret]
    /\ UNCHANGED <<body_model, model, exercise_model, feature_names, classifier, first,
                 Training, Progress>>

\* is_valid_exercise with a threshold, or with the default one
Call_is_valid_exercise ==
    /\ call.op = "idle"
    /\ \E exercise \in ExerciseLabels, confidence \in Confidences :
       \E given \in BOOLEAN :
       \E threshold \in IF given THEN Thresholds ELSE {DefaultThreshold} :
        call' = [op |-> "is_valid_exercise",
                 exercise |-> exercise,
                 confidence |-> confidence,
                 given |-> given,
                 threshold |-> threshold,
                 ret |-> is_valid_exercise(exercise, confidence, threshold)]
    /\ UNCHANGED <<body_model, model, exercise_model, feature_names, classifier, first,
                 Training, Progress>>

Next ==
    \/ Call_analyze_exercise_form
    \/ Call_calculate_body_measurements
    \/ Call_classify_body_type
    \/ Call_analyze_body_type
    \/ Call_extract_landmarks
    \/ Call_extract_pose_features
    \/ Call_check_alignment
    \/ Call_PoseEstimator_calculate_angle
    \/ Call_calculate_angle
    \/ Call_PoseEstimator_calculate_distance
    \/ Call_calculate_distance
    \/ Return

Spec == Init /\ [][Next]_vars

NextExercise ==
    \/ Call_classify_exercise
    \/ Call_identify_exercise
    \/ Call_is_valid_exercise
    \/ Return

SpecExercise == InitExercise /\ [][NextExercise]_vars

\* the fields of the objects, as a whole
Fields == <<body_model, model, exercise_model, feature_names, classifier>>

\* one PoseEstimator shared by callers that do not wait for each other: a
\* call follows a call, on any frame and for any exercise
InitRepeat ==
    /\ body_model = "None"
    /\ model = "None"
    /\ exercise_model = "None"
    /\ feature_names = NoFeatureNames
    /\ classifier = [model |-> "None", feature_names |-> NoFeatureNames]
    /\ call = Idle
    /\ first = Idle
    /\ trained_on = NoFeatureNames
    /\ model_files = NoModelFiles
    /\ progress_data = << >>
    /\ progress_file = NoFile
    /\ true_adds = 0

Repeat_analyze_exercise_form ==
    /\ \E results \in RepeatResults, exercise_type \in ExerciseTypes :
        call' = [op |-> "analyze_exercise_form",
                 results |-> results,
                 exercise_type |-> exercise_type,
                 ret |-> analyze_exercise_form(results, exercise_type)]
    /\ UNCHANGED <<body_model, model, exercise_model, feature_names, classifier, first,
                 Training, Progress>>

Repeat_calculate_body_measurements ==
    /\ \E results \in RepeatResults :
        call' = [op |-> "calculate_body_measurements",
                 results |-> results,
                 ret |-> calculate_body_measurements(results)]
    /\ UNCHANGED <<body_model, model, exercise_model, feature_names, classifier, first,
                 Training, Progress>>

\* a caller takes the result of the call it has just made and keeps it, with
\* the fields as they are
Keep ==
    /\ call.op # "idle"
    /\ first = Idle
    /\ first' = [op |-> "kept", call |-> call, fields |-> Fields]
    /\ call' = Idle
    /\ UNCHANGED <<body_model, model, exercise_model, feature_names, classifier,
                 Training, Progress>>

NextRepeat ==
    \/ Repeat_analyze_exercise_form
    \/ Repeat_calculate_body_measurements
    \/ Keep

SpecRepeat == InitRepeat /\ [][NextRepeat]_vars

-----------------------------------------------------------------------------
(* Training: ModelManager.train_exercise_model *)

\* how far a training gets: to the end, or to the exception of fit, of the
\* dump of the model, of the dump of the feature names
TrainingOutcomes == {"ok", "fit raises", "model dump raises", "names dump raises"}

\* the frames train_exercise_model is given: the feature columns, with the
\* 'exercise' column or without it
TrainingData ==
    [has_exercise : BOOLEAN, columns : FeatureNameLists]

\* train_exercise_model: the fields and the files after the call.  The
\* feature names are assigned before fit, the model after it, then the two
\* files are dumped; an exception ends the call where it is raised
ModelManager_train_exercise_model(em, names, columns, files, training_data, outcome) ==
    LET before == [exercise_model |-> em, feature_names |-> names,
                   trained_on |-> columns, model_files |-> files]
        X == training_data.columns
        named == [before EXCEPT !.feature_names = X]
        fitted == [named EXCEPT !.exercise_model = "loaded", !.trained_on = X]
        model_dumped == [fitted EXCEPT !.model_files.exercise_model =
                                           [saved |-> TRUE, trained_on |-> X]]
        names_dumped == [model_dumped EXCEPT !.model_files.feature_names =
                                                 [saved |-> TRUE, names |-> X]]
    IN  IF ~training_data.has_exercise THEN before
        ELSE IF outcome = "fit raises" THEN named
        ELSE IF outcome = "model dump raises" THEN fitted
        ELSE IF outcome = "names dump raises" THEN model_dumped
        ELSE names_dumped

\* ModelManager.__init__: a model and the names it was trained with are in
\* the files, or neither is
InitTrain ==
    /\ body_model = "None"
    /\ model = "None"
    /\ exercise_model \in {"None", "loaded"}
    /\ feature_names \in IF exercise_model = "None" THEN {NoFeatureNames}
                         ELSE FeatureNameLists
    /\ classifier = [model |-> "None", feature_names |-> NoFeatureNames]
    /\ call = Idle
    /\ first = Idle
    /\ trained_on = feature_names
    /\ model_files = ModelFiles(exercise_model, trained_on, feature_names)
    /\ progress_data = << >>
    /\ progress_file = NoFile
    /\ true_adds = 0

Call_train_exercise_model ==
    /\ call.op = "idle"
    /\ \E training_data \in TrainingData, outcome \in TrainingOutcomes :
        LET after == ModelManager_train_exercise_model(
                         exercise_model, feature_names, trained_on, model_files,
                         training_data, outcome)
        IN  /\ exercise_model' = after.exercise_model
            /\ feature_names' = after.feature_names
            /\ trained_on' = after.trained_on
            /\ model_files' = after.model_files
            /\ call' = [op |-> "train_exercise_model",
                        training_data |-> training_data,
                        outcome |-> IF training_data.has_exercise
                                    THEN outcome ELSE "no exercise column",
                        before |-> [exercise_model |-> exercise_model,
                                    feature_names |-> feature_names,
                                    trained_on |-> trained_on]]
    /\ UNCHANGED <<body_model, model, classifier, first, Progress>>

\* the page is run again: a new ModelManager loads what the files hold
New_ModelManager ==
    /\ call.op = "idle"
    /\ exercise_model' = IF model_files.exercise_model.saved THEN "loaded" ELSE "None"
    /\ trained_on' = model_files.exercise_model.trained_on
    /\ feature_names' = model_files.feature_names.names
    /\ call' = [op |-> "ModelManager"]
    /\ UNCHANGED <<body_model, model, classifier, first, model_files, Progress>>

NextTrain ==
    \/ Call_train_exercise_model
    \/ Call_identify_exercise
    \/ New_ModelManager
    \/ Return

SpecTrain == InitTrain /\ [][NextTrain]_vars

-----------------------------------------------------------------------------
(* Progress tracker: utils/progress_tracker.py.  A Timestamp is a day number,
   a row keeps the date and the exercise of an entry. *)

\* pandas' NaT, the missing Timestamp
NaT == 0

\* Python's None in a cell or in a statistic
None == "None"

\* Timestamp.strftime("%Y-%m-%d") of the days the entries are dated
strftime(day) ==
    CASE day = 1 -> "2024-01-01"
      [] day = 2 -> "2024-01-02"
      [] day = 4 -> "2024-01-04"

\* pd.to_datetime of a string: an empty string is NaT, a string that is not
\* a date raises
to_datetime(date) ==
    CASE date = ""           -> [raises |-> FALSE, value |-> NaT]
      [] date = "2024-01-01" -> [raises |-> FALSE, value |-> 1]
      [] date = "2024-01-02" -> [raises |-> FALSE, value |-> 2]
      [] date = "2024-01-04" -> [raises |-> FALSE, value |-> 4]
      [] OTHER               -> [raises |-> TRUE, value |-> NaT]

\* DataFrame.to_csv: a row as the file holds it; NaT and None are empty fields
to_csv(data) ==
    [i \in 1..Len(data) |->
        [date |-> IF data[i].date = NaT THEN "" ELSE strftime(data[i].date),
         exercise |-> IF data[i].exercise = None THEN "" ELSE data[i].exercise]]

\* _load_progress_data: the rows of the file with the date column parsed; no
\* rows when there is no file or when reading it raises
load_progress_data(file) ==
    IF ~file.exists
    THEN << >>
    ELSE IF \E i \in 1..Len(file.rows) : to_datetime(file.rows[i].date).raises
    THEN << >>
    ELSE [i \in 1..Len(file.rows) |->
            [date |-> to_datetime(file.rows[i].date).value,
             exercise |-> IF file.rows[i].exercise = "" THEN None
                          ELSE file.rows[i].exercise]]

\* _save_progress_data: the file after the call; an exception of makedirs or
\* to_csv is logged and leaves the file as it was
save_progress_data(data, file, write) ==
    IF write = "ok"
    THEN [exists |-> TRUE, rows |-> to_csv(data)]
    ELSE file

\* the dates of the rows that are not NaT
Dated(data) == { data[i].date : i \in 1..Len(data) } \ {NaT}

\* get_statistics: the general statistics; min() and max() skip NaT and are
\* NaT when every date is, and NaT.strftime raises
get_statistics(data) ==
    IF Len(data) = 0
    THEN [raises |-> FALSE, total_records |-> 0, start_date |-> None,
          end_date |-> None, tracked_days |-> 0]
    ELSE IF Dated(data) = {}
    THEN [raises |-> TRUE, total_records |-> 0, start_date |-> None,
          end_date |-> None, tracked_days |-> 0]
    ELSE [raises |-> FALSE, total_records |-> Len(data),
          start_date |-> strftime(SetMin(Dated(data))),
          end_date |-> strftime(SetMax(Dated(data))),
          tracked_days |-> SetMax(Dated(data)) - SetMin(Dated(data)) + 1]

\* the entries of one tracker are at most this many
MaxRecords == 2

\* the date strings add_progress_entry is called with
DateInputs == {"2024-01-01", "2024-01-02", "2024-01-04", "", "yesterday"}

\* the exercise of an entry
ExerciseInputs == {None, "Squat"}

\* what writing the CSV file does
WriteOutcomes == {"ok", "fails"}

\* the files a tracker may find in its data directory: none, one an earlier
\* tracker wrote, one that was edited by hand
ProgressFiles ==
    { NoFile,
      [exists |-> TRUE, rows |-> << >>],
      [exists |-> TRUE, rows |-> << [date |-> "2024-01-01", exercise |-> "Squat"] >>],
      [exists |-> TRUE, rows |-> << [date |-> "yesterday", exercise |-> ""] >>] }

\* ProgressTracker.__init__: the data is loaded from the file that is there
InitProgress ==
    /\ body_model = "None"
    /\ model = "None"
    /\ exercise_model = "None"
    /\ feature_names = NoFeatureNames
    /\ classifier = [model |-> "None", feature_names |-> NoFeatureNames]
    /\ call = Idle
    /\ first = Idle
    /\ trained_on = NoFeatureNames
    /\ model_files = NoModelFiles
    /\ progress_file \in ProgressFiles
    /\ progress_data = load_progress_data(progress_file)
    /\ true_adds = Len(progress_data)

Unrelated == <<body_model, model, exercise_model, feature_names, classifier, first, Training>>

Call_add_progress_entry ==
    /\ call.op = "idle"
    /\ Len(progress_data) < MaxRecords
    /\ \E date \in DateInputs, exercise \in ExerciseInputs, write \in WriteOutcomes :
        LET entry_date == to_datetime(date)
            new_entry == [date |-> entry_date.value, exercise |-> exercise]
        IN  IF entry_date.raises
            THEN /\ call' = [op |-> "add_progress_entry", date |-> date,
                             exercise |-> exercise, write |-> "none", ret |-> FALSE]
                 /\ UNCHANGED Progress
            ELSE /\ progress_data' = Append(progress_data, new_entry)
                 /\ progress_file' = save_progress_data(progress_data', progress_file, write)
                 /\ true_adds' = true_adds + 1
                 /\ call' = [op |-> "add_progress_entry", date |-> date,
                             exercise |-> exercise, write |-> write, ret |-> TRUE]
    /\ UNCHANGED Unrelated

Call_clear_progress_data ==
    /\ call.op = "idle"
    /\ \E write \in WriteOutcomes :
        /\ progress_data' = << >>
        /\ progress_file' = save_progress_data(progress_data', progress_file, write)
        /\ true_adds' = 0
        /\ call' = [op |-> "clear_progress_data", write |-> write, ret |-> TRUE]
    /\ UNCHANGED Unrelated

Call_get_statistics ==
    /\ call.op = "idle"
    /\ call' = [op |-> "get_statistics", ret |-> get_statistics(progress_data)]
    /\ UNCHANGED <<Unrelated, Progress>>

\* the page is run again: a new ProgressTracker loads the file
New_ProgressTracker ==
    /\ call.op = "idle"
    /\ progress_data' = load_progress_data(progress_file)
    /\ true_adds' = Len(progress_data')
    /\ call' = [op |-> "ProgressTracker"]
    /\ UNCHANGED <<Unrelated, progress_file>>

NextProgress ==
    \/ Call_add_progress_entry
    \/ Call_clear_progress_data
    \/ Call_get_statistics
    \/ New_ProgressTracker
    \/ Return

SpecProgress == InitProgress /\ [][NextProgress]_vars


-----------------------------------------------------------------------------
(* Properties *)

\* a call of analyze_exercise_form; with a detected pose; for one exercise
FormCall == call.op = "analyze_exercise_form"
PoseFormCall == FormCall /\ call.results.kind = "Pose"
FormCallOf(exercise_type) == PoseFormCall /\ call.exercise_type = exercise_type

\* the landmark of the frame of the call
LM(j) == call.results.landmark[j]

\* the section 4.1 alignment test, stated on its own: both vectors non-zero
\* and |cos| > 0.9
ClaimAligned(p1, p2, p3) ==
    LET ax == p1.x - p2.x
        ay == p1.y - p2.y
        bx == p3.x - p2.x
        by == p3.y - p2.y
        d == ax * bx + ay * by
    IN  /\ ax * ax + ay * ay > 0
        /\ bx * bx + by * by > 0
        /\ 100 * d * d > 81 * (ax * ax + ay * ay) * (bx * bx + by * by)

BothSidesAligned ==
    /\ ClaimAligned(LM("LEFT_SHOULDER"), LM("LEFT_HIP"), LM("LEFT_ANKLE"))
    /\ ClaimAligned(LM("RIGHT_SHOULDER"), LM("RIGHT_HIP"), LM("RIGHT_ANKLE"))

\* min(l, r) < t.  For two defined angles that is "one of them is below t".
\* With an undefined angle, Python's min returns its first argument unless
\* the second compares smaller: min(NaN, r) is NaN, min(l, NaN) is l.
MinBelow(l, r, t) ==
    IF IsNaN(l) THEN FALSE
    ELSE IF IsNaN(r) THEN l < t
    ELSE l < t \/ r < t

LeftElbowAngle ==
    PoseEstimator_calculate_angle(LM("LEFT_SHOULDER"), LM("LEFT_ELBOW"), LM("LEFT_WRIST"))
RightElbowAngle ==
    PoseEstimator_calculate_angle(LM("RIGHT_SHOULDER"), LM("RIGHT_ELBOW"), LM("RIGHT_WRIST"))
LeftKneeAngle ==
    PoseEstimator_calculate_angle(LM("LEFT_HIP"), LM("LEFT_KNEE"), LM("LEFT_ANKLE"))
RightKneeAngle ==
    PoseEstimator_calculate_angle(LM("RIGHT_HIP"), LM("RIGHT_KNEE"), LM("RIGHT_ANKLE"))

\* shoulder.x within 0.1 of hip.x on both sides
ShouldersOverHips ==
    /\ Abs(LM("LEFT_SHOULDER").x - LM("LEFT_HIP").x) < 2
    /\ Abs(LM("RIGHT_SHOULDER").x - LM("RIGHT_HIP").x) < 2

\* C1: analyze_exercise_form on an absent frame (results None, or no
\* pose_landmarks) returns correct = false and the "No pose detected"
\* feedback, whatever the exercise type, known or not.
C1_AbsentFrame ==
    (FormCall /\ call.results.kind \in {"None", "NoLandmarks"}) =>
        call.ret = [correct |-> FALSE,
                    feedback |-> "No pose detected. Please ensure your full body is visible."]

C1_Witness ==
    /\ FormCall
    /\ call.results.kind = "None"
    /\ call.exercise_type = "Deadlift"
    /\ call.ret.feedback = "No pose detected. Please ensure your full body is visible."

\* C2: with a detected pose and an exercise type other than the four known
\* ones, the result is correct = false with "Analysis for <type> not
\* implemented yet." and nothing else: no rule set ran, so no metrics.
C2_UnknownExercise ==
    /\ FormCallOf("Deadlift") =>
           call.ret = [correct |-> FALSE,
                       feedback |-> "Analysis for Deadlift not implemented yet."]
    /\ FormCallOf("squat") =>
           call.ret = [correct |-> FALSE,
                       feedback |-> "Analysis for squat not implemented yet."]
    /\ (PoseFormCall /\ call.exercise_type \notin {"Push-up", "Squat", "Plank", "Lunge"}) =>
           DOMAIN call.ret = {"correct", "feedback"}

C2_Witness ==
    /\ FormCallOf("squat")
    /\ call.ret.feedback = "Analysis for squat not implemented yet."

\* the section 4.3 table
TableBodyType(ratio) ==
    CASE ratio > 1250 -> "Inverted Triangle"
      [] ratio < 850  -> "Pear"
      [] OTHER        -> "Rectangle"

\* the ratio a classifier call was given (absent from the dict: 0)
GivenRatio ==
    IF "shoulder_hip_ratio" \in DOMAIN call.measurements
    THEN call.measurements["shoulder_hip_ratio"]
    ELSE 0

\* C3 (as claimed): whenever the trained classifier is absent or its predict
\* raises, ModelManager.classify_body_type and BodyAnalyzer.analyze_body_type
\* both return the rule-based label of the given shoulder_hip_ratio.
C3_FallbackEverywhere ==
    /\ (call.op = "classify_body_type" /\ (body_model = "None" \/ call.predict.raises)) =>
           call.ret = TableBodyType(GivenRatio)
    /\ (call.op = "analyze_body_type" /\ (model = "None" \/ call.predict.raises)) =>
           call.ret[1] = TableBodyType(GivenRatio)

\* C4: the label calculate_body_measurements gives is Inverted Triangle above
\* 1.25, Pear below 0.85 and Rectangle otherwise, both thresholds themselves
\* being Rectangle; a frame with hip_width 0 has ratio 0 and is a Pear.
C4_BodyTypeRule ==
    (call.op = "calculate_body_measurements" /\ call.results.kind = "Pose") =>
        LET m == call.ret
        IN  /\ m.shoulder_hip_ratio > 1250 => m.body_type = "Inverted Triangle"
            /\ m.shoulder_hip_ratio < 850 => m.body_type = "Pear"
            /\ (m.shoulder_hip_ratio >= 850 /\ m.shoulder_hip_ratio <= 1250)
                   => m.body_type = "Rectangle"
            /\ m.hip_width = 0 => (m.shoulder_hip_ratio = 0 /\ m.body_type = "Pear")

C4_Witness ==
    /\ call.op = "calculate_body_measurements"
    /\ call.results.kind = "Pose"
    /\ call.ret.hip_width = 0
    /\ call.ret.shoulder_width > 0
    /\ call.ret.body_type = "Pear"

\* reachability of the two thresholds themselves
C4_AtUpperThreshold ==
    /\ call.op = "calculate_body_measurements"
    /\ call.results.kind = "Pose"
    /\ call.ret.shoulder_hip_ratio = 1250
C4_AtLowerThreshold ==
    /\ call.op = "calculate_body_measurements"
    /\ call.results.kind = "Pose"
    /\ call.ret.shoulder_hip_ratio = 850

\* C5: the copies of the rule agree.  The model-absent branch of
\* ModelManager.classify_body_type and BodyAnalyzer._rule_based_classification
\* (reached with no model, or after predict raised) return the label that
\* calculate_body_measurements' rule gives the same ratio; for a measurement
\* set produced from a frame, that is its body_type.
C5_CopiesAgree ==
    /\ (call.op = "classify_body_type" /\ body_model = "None") =>
           /\ call.ret = BodyTypeOfRatio(GivenRatio)
           /\ "body_type" \in DOMAIN call.measurements =>
                  call.ret = call.measurements["body_type"]
    /\ (call.op = "analyze_body_type" /\ (model = "None" \/ call.predict.raises)) =>
           /\ call.ret[1] = BodyTypeOfRatio(GivenRatio)
           /\ "body_type" \in DOMAIN call.measurements =>
                  call.ret[1] = call.measurements["body_type"]

C5_Witness ==
    /\ call.op = "classify_body_type"
    /\ body_model = "None"
    /\ "body_type" \in DOMAIN call.measurements
    /\ call.measurements["shoulder_hip_ratio"] = 850
    /\ call.ret = "Rectangle"

\* C6: a push-up is correct exactly when min(left, right elbow angle) < 100
\* and shoulder-hip-ankle is aligned on both sides; a minimum of exactly 100
\* is not correct.
C6_PushupVerdict ==
    FormCallOf("Push-up") =>
        /\ call.ret.correct =
               (MinBelow(LeftElbowAngle, RightElbowAngle, 100) /\ BothSidesAligned)
        /\ call.ret.metrics.elbow_angle = 100 => ~call.ret.correct

\* the smaller elbow angle is exactly 100 with a straight back
C6_Witness ==
    /\ FormCallOf("Push-up")
    /\ call.ret.metrics.elbow_angle = 100
    /\ LeftElbowAngle > 100
    /\ BothSidesAligned
    /\ ~call.ret.correct

\* one side bent below 100, the other not, back straight: correct
C6_OneSideBent ==
    /\ FormCallOf("Push-up")
    /\ LeftElbowAngle > 100
    /\ RightElbowAngle = 90
    /\ call.ret.correct

\* C7: the push-up feedback is the back message when the back is not
\* straight, then the elbow message when elbow_angle >= 100, joined by one
\* space, each present exactly when its own condition fails; with neither,
\* it is "Great form! Keep it up.".
C7_PushupFeedback ==
    FormCallOf("Push-up") =>
        LET back_fails == ~BothSidesAligned
            elbow_fails == FGe(call.ret.metrics.elbow_angle, 100)
        IN  call.ret.feedback =
              (CASE back_fails /\ elbow_fails ->
                      "Keep your back straight and core engaged. Lower your body more, aim for a 90-degree bend in your elbows."
                 [] back_fails /\ ~elbow_fails ->
                      "Keep your back straight and core engaged."
                 [] ~back_fails /\ elbow_fails ->
                      "Lower your body more, aim for a 90-degree bend in your elbows."
                 [] OTHER ->
                      "Great form! Keep it up.")

C7_Witness ==
    /\ FormCallOf("Push-up")
    /\ ~BothSidesAligned
    /\ call.ret.metrics.elbow_angle = 135
    /\ call.ret.feedback =
           "Keep your back straight and core engaged. Lower your body more, aim for a 90-degree bend in your elbows."

\* the sentences of a feedback in which each of the given messages appears
\* once, in any order
RECURSIVE Orderings(_)
Orderings(msgs) ==
    IF msgs = {} THEN {<<>>}
    ELSE UNION { { <<m>> \o rest : rest \in Orderings(msgs \ {m}) } : m \in msgs }

\* C8 (as claimed): a squat is correct exactly when min(knee angle) < 120,
\* the shoulders are within 0.1 of the hips in x on both sides and
\* knee.x < ankle.x on both sides; and the feedback holds one sentence for
\* each of these three conditions that fails, and no other.
C8_SquatVerdictAndSentences ==
    FormCallOf("Squat") =>
        LET depth_ok == MinBelow(LeftKneeAngle, RightKneeAngle, 120)
            back_ok == ShouldersOverHips
            toes_ok == /\ LM("LEFT_KNEE").x < LM("LEFT_ANKLE").x
                       /\ LM("RIGHT_KNEE").x < LM("RIGHT_ANKLE").x
            failing ==
                (IF back_ok THEN {} ELSE {"Keep your back straight and chest up."})
                \cup (IF depth_ok THEN {}
                      ELSE {"Lower your hips more, aim for a 90-degree bend in your knees."})
                \cup (IF toes_ok THEN {} ELSE {"Keep your knees behind your toes."})
        IN  /\ call.ret.correct = (depth_ok /\ back_ok /\ toes_ok)
            /\ failing # {} =>
                   call.ret.feedback \in { Join(o) : o \in Orderings(failing) }
            /\ failing = {} => call.ret.feedback = "Great squat form! Keep it up."

\* the same statement for the frames whose two knee angles are defined
C8_DefinedKneeAngles ==
    (FormCallOf("Squat") /\ ~IsNaN(LeftKneeAngle) /\ ~IsNaN(RightKneeAngle)) =>
        C8_SquatVerdictAndSentences

\* C9: a plank is correct exactly when shoulder-hip-ankle is aligned on both
\* sides and |hip.y - shoulder.y| < 0.1 on both sides; the generic message is
\* there exactly when the alignment fails, and exactly one of the two hip
\* messages exactly when the hip check fails.
C9_PlankVerdict ==
    FormCallOf("Plank") =>
        LET aligned == BothSidesAligned
            hips_ok == /\ Abs(LM("LEFT_HIP").y - LM("LEFT_SHOULDER").y) < 2
                       /\ Abs(LM("RIGHT_HIP").y - LM("RIGHT_SHOULDER").y) < 2
        IN  /\ call.ret.correct = (aligned /\ hips_ok)
            /\ (aligned /\ hips_ok) =>
                   call.ret.feedback = "Great plank form! Hold it steady."
            /\ (~aligned /\ hips_ok) =>
                   call.ret.feedback = "Maintain a straight line from head to heels."
            /\ (aligned /\ ~hips_ok) =>
                   call.ret.feedback \in
                       { "Lower your hips, they're too high.",
                         "Raise your hips, they're too low." }
            /\ (~aligned /\ ~hips_ok) =>
                   call.ret.feedback \in
                       { "Maintain a straight line from head to heels. Lower your hips, they're too high.",
                         "Maintain a straight line from head to heels. Raise your hips, they're too low." }

\* a straight body whose hips are off on the right side only
C9_Witness ==
    /\ FormCallOf("Plank")
    /\ BothSidesAligned
    /\ Abs(LM("LEFT_HIP").y - LM("LEFT_SHOULDER").y) < 2
    /\ Abs(LM("RIGHT_HIP").y - LM("RIGHT_SHOULDER").y) >= 2
    /\ ~call.ret.correct
    /\ call.ret.feedback = "Raise your hips, they're too low."

C9_CorrectPlank ==
    /\ FormCallOf("Plank")
    /\ call.ret.correct

\* C10: a lunge is correct exactly when min(knee angle) < 110, the shoulders
\* are within 0.1 of the hips in x on both sides, and the knee is within 0.1
\* of the ankle in x on the left or on the right side.
C10_LungeVerdict ==
    FormCallOf("Lunge") =>
        call.ret.correct =
            (/\ MinBelow(LeftKneeAngle, RightKneeAngle, 110)
             /\ ShouldersOverHips
             /\ (\/ Abs(LM("LEFT_KNEE").x - LM("LEFT_ANKLE").x) < 2
                 \/ Abs(LM("RIGHT_KNEE").x - LM("RIGHT_ANKLE").x) < 2))

\* correct with the knee over the ankle on one side only
C10_Witness ==
    /\ FormCallOf("Lunge")
    /\ call.ret.correct
    /\ Abs(LM("LEFT_KNEE").x - LM("LEFT_ANKLE").x) >= 2
    /\ Abs(LM("RIGHT_KNEE").x - LM("RIGHT_ANKLE").x) < 2

\* the metrics keys section 3 and 4.4 give each exercise
MetricsKeys(exercise_type) ==
    CASE exercise_type = "Push-up" -> {"elbow_angle", "back_straight"}
      [] exercise_type = "Squat"   -> {"knee_angle", "back_straight", "knees_over_toes"}
      [] exercise_type = "Plank"   -> {"body_alignment", "hip_position"}
      [] exercise_type = "Lunge"   -> {"front_knee_angle", "torso_upright",
                                       "knee_ankle_alignment"}
      [] OTHER                     -> {}

\* C11 (as claimed): every verdict of analyze_exercise_form, the one for an
\* absent frame and the one for an unknown exercise type included, has the
\* three fields correct, feedback and metrics; for the four exercises the
\* metrics keys are those of the table.
C11_VerdictFields ==
    FormCall =>
        /\ DOMAIN call.ret = {"correct", "feedback", "metrics"}
        /\ (call.results.kind = "Pose"
            /\ call.exercise_type \in {"Push-up", "Squat", "Plank", "Lunge"})
               => DOMAIN call.ret.metrics = MetricsKeys(call.exercise_type)

\* what does hold: the verdicts of the four rule sets have the three fields
\* and the metrics keys of the table
C11_RuleSetVerdictFields ==
    (PoseFormCall /\ call.exercise_type \in {"Push-up", "Squat", "Plank", "Lunge"}) =>
        /\ DOMAIN call.ret = {"correct", "feedback", "metrics"}
        /\ call.ret.correct \in BOOLEAN
        /\ DOMAIN call.ret.metrics = MetricsKeys(call.exercise_type)

\* the names of a loaded list that a feature dict lacks
MissingFrom(names, features) == names.names \ DOMAIN features

\* the pair a call returns when the model predicted
Predicted == <<call.predict.label, call.predict.confidence>>

\* the model was called with a row whose missing names hold 0, and its
\* prediction came back
FilledAndPredicted(missing) ==
    /\ call.model_input.called
    /\ \A k \in missing : call.model_input.row[k] = 0
    /\ ~call.predict.raises => call.ret = Predicted

\* a classify_exercise call that got as far as selecting the model's columns
ClassifySelects ==
    /\ call.op = "classify_exercise"
    /\ classifier.model = "loaded"
    /\ classifier.feature_names.kind = "list"
    /\ call.pose_landmarks.kind = "landmarks"

\* an identify_exercise call that got as far as selecting the model's columns
IdentifySelects ==
    /\ call.op = "identify_exercise"
    /\ exercise_model = "loaded"
    /\ feature_names.kind = "list"

\* C12 (as claimed): in classify_exercise and in identify_exercise alike, a
\* feature name the model requires and the vector lacks is filled with 0 and
\* the model's prediction is the result.
C12_MissingFeatureFilled ==
    /\ ClassifySelects =>
           FilledAndPredicted(MissingFrom(classifier.feature_names,
                                          extract_pose_features(call.pose_landmarks.landmark)))
    /\ IdentifySelects =>
           FilledAndPredicted(MissingFrom(feature_names, call.features))

\* what does hold: classify_exercise fills the missing names with 0
C12_ClassifierFillsZero ==
    ClassifySelects =>
        FilledAndPredicted(MissingFrom(classifier.feature_names,
                                       extract_pose_features(call.pose_landmarks.landmark)))

\* identify_exercise with a missing name and a model that would predict
C12_IdentifyMissing ==
    /\ IdentifySelects
    /\ MissingFrom(feature_names, call.features) = {"hip_angle"}
    /\ ~call.predict.raises
    /\ call.ret = Unknown

\* C13 (as claimed): when the exercise model or its feature-name list is not
\* loaded, or inference raises, both prediction calls return ("Unknown", 0.0),
\* and is_valid_exercise rejects that pair for every threshold.
C13_UnavailableOutcome ==
    /\ (call.op = "classify_exercise"
        /\ (classifier.model = "None" \/ classifier.feature_names.kind = "None"
            \/ call.predict.raises))
           => call.ret = Unknown
    /\ (call.op = "identify_exercise"
        /\ (exercise_model = "None" \/ feature_names.kind = "None"
            \/ call.predict.raises))
           => call.ret = Unknown
    /\ (call.op = "is_valid_exercise" /\ call.exercise = "Unknown" /\ call.confidence = 0)
           => ~call.ret

\* C13 (amended): classify_exercise returns ("Unknown", 0.0) when its model or
\* its feature-name list is not loaded, when pose_landmarks is None or when
\* the model raises; identify_exercise returns it when its model is not
\* loaded, when the vector lacks a listed name or when the model raises, but
\* without a feature-name list it hands the whole (non-empty) vector to the
\* model and returns the prediction.  is_valid_exercise rejects ("Unknown", 0.0) for
\* every threshold.
C13_Amended ==
    /\ (call.op = "classify_exercise"
        /\ (classifier.model = "None" \/ classifier.feature_names.kind = "None"
            \/ call.pose_landmarks.kind = "None" \/ call.predict.raises))
           => call.ret = Unknown
    /\ (call.op = "identify_exercise"
        /\ (exercise_model = "None" \/ call.predict.raises
            \/ (feature_names.kind = "list"
                /\ MissingFrom(feature_names, call.features) # {})))
           => call.ret = Unknown
    /\ (call.op = "identify_exercise" /\ exercise_model = "loaded"
        /\ feature_names.kind = "None" /\ ~call.predict.raises
        /\ DOMAIN call.features # {})
           => (call.ret = Predicted /\ call.model_input = CalledWith(call.features))
    /\ (call.op = "is_valid_exercise" /\ call.exercise = "Unknown" /\ call.confidence = 0)
           => ~call.ret

C13_Witness ==
    /\ call.op = "classify_exercise"
    /\ classifier.model = "loaded"
    /\ classifier.feature_names.kind = "None"
    /\ call.pose_landmarks.kind = "landmarks"
    /\ call.ret = Unknown

\* the threshold a call of is_valid_exercise works with
ThresholdOfCall == IF call.given THEN call.threshold ELSE 70

\* C14: is_valid_exercise is true iff the label is not "Unknown" and the
\* confidence is at least the threshold, 0.7 when none is given: a confidence
\* equal to the threshold is valid, ("Squat", 0.65) is not, ("Squat", 0.71)
\* is, and "Unknown" never is.
C14_ValidityGate ==
    call.op = "is_valid_exercise" =>
        /\ call.ret <=> (call.exercise # "Unknown" /\ call.confidence >= ThresholdOfCall)
        /\ (call.exercise # "Unknown" /\ call.confidence = ThresholdOfCall) => call.ret
        /\ (call.exercise = "Squat" /\ call.confidence = 65 /\ ~call.given) => ~call.ret
        /\ (call.exercise = "Squat" /\ call.confidence = 71 /\ ~call.given) => call.ret
        /\ call.exercise = "Unknown" => ~call.ret

C14_Witness ==
    /\ call.op = "is_valid_exercise"
    /\ call.exercise = "Squat"
    /\ call.confidence = 70
    /\ ~call.given
    /\ call.ret

\* C15: on an absent frame extract_landmarks and extract_pose_features return
\* an empty mapping and calculate_body_measurements returns the empty no-pose
\* result: a value comes back (nothing is raised) and it has no entry at all,
\* so no zero-filled features or measurements.
C15_AbsentFrameEmpty ==
    /\ (call.op = "extract_landmarks" /\ call.results.kind \in {"None", "NoLandmarks"})
           => DOMAIN call.ret = {}
    /\ (call.op = "calculate_body_measurements"
        /\ call.results.kind \in {"None", "NoLandmarks"})
           => DOMAIN call.ret = {}
    /\ (call.op = "extract_pose_features"
        /\ (call.landmarks.kind = "None" \/ DOMAIN call.landmarks.items = {}))
           => DOMAIN call.ret = {}

C15_Witness ==
    /\ call.op = "extract_landmarks"
    /\ call.results.kind = "NoLandmarks"
    /\ DOMAIN call.ret = {}

\* the same for the other two functions
C15_MeasurerWitness ==
    /\ call.op = "calculate_body_measurements"
    /\ call.results.kind = "None"
    /\ DOMAIN call.ret = {}

C15_ExtractorWitness ==
    /\ call.op = "extract_pose_features"
    /\ call.landmarks.kind = "None"
    /\ DOMAIN call.ret = {}

\* the names of section 4.2: four per landmark, five angles, five distances
StableFeatureNames ==
    { "landmark_" \o ToString(i) \o "_" \o f :
        i \in 0..32, f \in {"x", "y", "z", "visibility"} }
    \cup {"right_elbow_angle", "left_elbow_angle", "right_knee_angle",
          "left_knee_angle", "torso_angle"}
    \cup {"shoulder_width", "hip_width", "torso_length", "arm_length", "leg_length"}

\* C16: for a list of 33 landmarks extract_pose_features returns 142 entries,
\* under the same names whatever the coordinates are, coincident landmarks
\* included; never fewer.
C16_FeatureNames ==
    (call.op = "extract_pose_features" /\ call.landmarks.kind = "list"
     /\ DOMAIN call.landmarks.items = 0..32) =>
        /\ Cardinality(DOMAIN call.ret) = 33 * 4 + 5 + 5
        /\ DOMAIN call.ret = StableFeatureNames

\* a frame whose left elbow is where the left shoulder is
C16_Witness ==
    /\ call.op = "extract_pose_features"
    /\ call.landmarks.kind = "list"
    /\ DOMAIN call.landmarks.items = 0..32
    /\ call.landmarks.items[13].x = call.landmarks.items[11].x
    /\ call.landmarks.items[13].y = call.landmarks.items[11].y
    /\ IsNaN(call.ret["left_elbow_angle"])
    /\ Cardinality(DOMAIN call.ret) = 142

\* w is the distance from p to q in thousandths, rounded down: the square
\* root of the sum of the three squared differences
IsDistance(w, p, q) ==
    LET sumsq == (p.x - q.x) * (p.x - q.x) + (p.y - q.y) * (p.y - q.y)
                 + (p.z - q.z) * (p.z - q.z)
    IN  /\ w >= 0
        /\ w * w <= sumsq * 1000000
        /\ (w + 1) * (w + 1) > sumsq * 1000000

\* m is the mean of a and b (in thousandths, rounded down)
IsMean(m, a, b) == 2 * m <= a + b /\ a + b < 2 * (m + 1)

\* the landmark of the frame of a calculate_body_measurements call, and the
\* hip-to-ankle and shoulder-to-wrist distances of each side
MeasuredLandmark(j) == call.results.landmark[j]
LeftLeg == PoseEstimator_calculate_distance(MeasuredLandmark("LEFT_HIP"),
                                            MeasuredLandmark("LEFT_ANKLE"))
RightLeg == PoseEstimator_calculate_distance(MeasuredLandmark("RIGHT_HIP"),
                                             MeasuredLandmark("RIGHT_ANKLE"))
LeftArm == PoseEstimator_calculate_distance(MeasuredLandmark("LEFT_SHOULDER"),
                                            MeasuredLandmark("LEFT_WRIST"))
RightArm == PoseEstimator_calculate_distance(MeasuredLandmark("RIGHT_SHOULDER"),
                                             MeasuredLandmark("RIGHT_WRIST"))

\* C17: for a present frame, shoulder_width and hip_width are the left-right
\* distances, leg_length is the mean of the two hip-to-ankle distances,
\* arm_length the mean of the two shoulder-to-wrist distances, and
\* shoulder_hip_ratio is shoulder_width / hip_width, 0 when hip_width is 0.
C17_Measurements ==
    (call.op = "calculate_body_measurements" /\ call.results.kind = "Pose") =>
        LET m == call.ret
        IN  /\ IsDistance(m.shoulder_width, MeasuredLandmark("LEFT_SHOULDER"),
                          MeasuredLandmark("RIGHT_SHOULDER"))
            /\ IsDistance(m.hip_width, MeasuredLandmark("LEFT_HIP"),
                          MeasuredLandmark("RIGHT_HIP"))
            /\ IsDistance(LeftLeg, MeasuredLandmark("LEFT_HIP"), MeasuredLandmark("LEFT_ANKLE"))
            /\ IsDistance(RightLeg, MeasuredLandmark("RIGHT_HIP"), MeasuredLandmark("RIGHT_ANKLE"))
            /\ IsMean(m.leg_length, LeftLeg, RightLeg)
            /\ IsDistance(LeftArm, MeasuredLandmark("LEFT_SHOULDER"),
                          MeasuredLandmark("LEFT_WRIST"))
            /\ IsDistance(RightArm, MeasuredLandmark("RIGHT_SHOULDER"),
                          MeasuredLandmark("RIGHT_WRIST"))
            /\ IsMean(m.arm_length, LeftArm, RightArm)
            /\ m.hip_width = 0 => m.shoulder_hip_ratio = 0
            /\ m.hip_width > 0 =>
                   /\ m.shoulder_hip_ratio * m.hip_width <= m.shoulder_width * 1000
                   /\ (m.shoulder_hip_ratio + 1) * m.hip_width > m.shoulder_width * 1000

\* hips at one place, shoulders apart, and legs of different lengths
C17_Witness ==
    /\ call.op = "calculate_body_measurements"
    /\ call.results.kind = "Pose"
    /\ call.ret.hip_width = 0
    /\ call.ret.shoulder_width > 0
    /\ call.ret.shoulder_hip_ratio = 0
    /\ LeftLeg < call.ret.leg_length
    /\ call.ret.leg_length < RightLeg

\* a frame with a ratio that is not a whole number
C17_RatioWitness ==
    /\ call.op = "calculate_body_measurements"
    /\ call.results.kind = "Pose"
    /\ call.ret.hip_width > 0
    /\ call.ret.shoulder_hip_ratio > 1000
    /\ call.ret.shoulder_hip_ratio < 2000

\* the vertex p2 is, in x and y, where p1 or p3 is
ZeroLengthVector(p1, p2, p3) ==
    \/ (p1.x = p2.x /\ p1.y = p2.y)
    \/ (p3.x = p2.x /\ p3.y = p2.y)

\* a call of one of the geometry functions
GeometryCall == call.op \in {"_check_alignment", "_calculate_angle", "calculate_angle"}

\* C19: with a zero-length vector the alignment test returns false and both
\* angle functions return the undefined value; analyze_exercise_form still
\* returns a verdict, in which a collapsed torso is not aligned and a
\* collapsed left elbow or knee makes the angle undefined, and
\* extract_pose_features still returns all its entries, the angle undefined.
C19_DegenerateGeometry ==
    /\ (call.op = "_check_alignment" /\ ZeroLengthVector(call.p1, call.p2, call.p3))
           => call.ret = FALSE
    /\ (call.op \in {"_calculate_angle", "calculate_angle"}
        /\ ZeroLengthVector(call.p1, call.p2, call.p3))
           => IsNaN(call.ret)
    /\ (PoseFormCall /\ call.exercise_type \in {"Push-up", "Squat", "Plank", "Lunge"})
           => (DOMAIN call.ret = {"correct", "feedback", "metrics"}
               /\ call.ret.correct \in BOOLEAN)
    /\ (FormCallOf("Plank")
        /\ ZeroLengthVector(LM("LEFT_SHOULDER"), LM("LEFT_HIP"), LM("LEFT_ANKLE")))
           => (call.ret.metrics.body_alignment = FALSE /\ call.ret.correct = FALSE)
    /\ (FormCallOf("Push-up")
        /\ ZeroLengthVector(LM("LEFT_SHOULDER"), LM("LEFT_ELBOW"), LM("LEFT_WRIST")))
           => (IsNaN(call.ret.metrics.elbow_angle) /\ call.ret.correct = FALSE)
    /\ (FormCallOf("Squat")
        /\ ZeroLengthVector(LM("LEFT_HIP"), LM("LEFT_KNEE"), LM("LEFT_ANKLE")))
           => IsNaN(call.ret.metrics.knee_angle)
    /\ (FormCallOf("Lunge")
        /\ ZeroLengthVector(LM("LEFT_HIP"), LM("LEFT_KNEE"), LM("LEFT_ANKLE")))
           => IsNaN(call.ret.metrics.front_knee_angle)
    /\ (call.op = "extract_pose_features" /\ call.landmarks.kind = "list"
        /\ DOMAIN call.landmarks.items = 0..32
        /\ ZeroLengthVector(call.landmarks.items[23], call.landmarks.items[25],
                            call.landmarks.items[27]))
           => (IsNaN(call.ret["left_knee_angle"])
               /\ Cardinality(DOMAIN call.ret) = 142)

\* a plank seen from above: the hip is where the shoulder is
C19_Witness ==
    /\ FormCallOf("Plank")
    /\ LM("LEFT_HIP").x = LM("LEFT_SHOULDER").x
    /\ LM("LEFT_HIP").y = LM("LEFT_SHOULDER").y
    /\ call.ret.metrics.body_alignment = FALSE

\* the other cases of C19
C19_AngleWitness ==
    /\ call.op = "_calculate_angle"
    /\ call.p1 = call.p2
    /\ call.p3 # call.p2
    /\ IsNaN(call.ret)

C19_SquatWitness ==
    /\ FormCallOf("Squat")
    /\ ZeroLengthVector(LM("LEFT_HIP"), LM("LEFT_KNEE"), LM("LEFT_ANKLE"))
    /\ IsNaN(call.ret.metrics.knee_angle)

C19_FeatureWitness ==
    /\ call.op = "extract_pose_features"
    /\ call.landmarks.kind = "list"
    /\ DOMAIN call.landmarks.items = 0..32
    /\ ZeroLengthVector(call.landmarks.items[23], call.landmarks.items[25],
                        call.landmarks.items[27])
    /\ IsNaN(call.ret["left_knee_angle"])

\* the dot and cross products of p1 - p2 and p3 - p2 in x and y
Dot(p1, p2, p3) == (p1.x - p2.x) * (p3.x - p2.x) + (p1.y - p2.y) * (p3.y - p2.y)
Cross(p1, p2, p3) == (p1.x - p2.x) * (p3.y - p2.y) - (p1.y - p2.y) * (p3.x - p2.x)

\* C20: the alignment test is true exactly when the absolute value of the
\* normalized dot product of p1 - p2 and p3 - p2 in x and y is above 0.9:
\* true for three distinct colinear points, the vectors opposite or not,
\* false for a right angle, and the same with p1 and p3 exchanged.
C20_AlignmentTest ==
    call.op = "_check_alignment" =>
        /\ call.ret <=> ClaimAligned(call.p1, call.p2, call.p3)
        /\ (~ZeroLengthVector(call.p1, call.p2, call.p3)
            /\ Cross(call.p1, call.p2, call.p3) = 0) => call.ret
        /\ (~ZeroLengthVector(call.p1, call.p2, call.p3)
            /\ Dot(call.p1, call.p2, call.p3) = 0) => ~call.ret
        /\ call.ret = PoseEstimator_check_alignment(call.p3, call.p2, call.p1)

\* colinear, p2 between p1 and p3: the vectors are opposite
C20_Witness ==
    /\ call.op = "_check_alignment"
    /\ ~ZeroLengthVector(call.p1, call.p2, call.p3)
    /\ Cross(call.p1, call.p2, call.p3) = 0
    /\ Dot(call.p1, call.p2, call.p3) < 0
    /\ call.ret

\* colinear, p1 and p3 on the same side of p2
C20_SameDirection ==
    /\ call.op = "_check_alignment"
    /\ ~ZeroLengthVector(call.p1, call.p2, call.p3)
    /\ Cross(call.p1, call.p2, call.p3) = 0
    /\ Dot(call.p1, call.p2, call.p3) > 0
    /\ call.ret

\* a right angle
C20_RightAngle ==
    /\ call.op = "_check_alignment"
    /\ ~ZeroLengthVector(call.p1, call.p2, call.p3)
    /\ Dot(call.p1, call.p2, call.p3) = 0
    /\ ~call.ret

\* not colinear and yet aligned: a cosine between 0.9 and 1
C20_NearlyColinear ==
    /\ call.op = "_check_alignment"
    /\ Cross(call.p1, call.p2, call.p3) # 0
    /\ call.ret

\* the call in progress has the operation and the arguments of the kept one
SameCallAsKept ==
    /\ first.op = "kept"
    /\ call.op = first.call.op
    /\ call.results = first.call.results
    /\ call.op = "analyze_exercise_form" => call.exercise_type = first.call.exercise_type

C18_OtherFrame ==
    /\ first.op = "kept"
    /\ call.op = "calculate_body_measurements"
    /\ first.call.op = "calculate_body_measurements"
    /\ call.results # first.call.results
    /\ call.ret # first.call.ret

\* a point with its depth set to 0
Flat(p) == [p EXCEPT !.z = 0]

\* C21: the angle at the vertex is made from x and y only, lies within 0 to
\* 180 degrees when neither vector is of zero length, is 90 for
\* perpendicular and 180 for opposite vectors, and the two copies of the
\* function, of PoseEstimator and of feature_extraction, agree on every input.
C21_Angle ==
    call.op \in {"_calculate_angle", "calculate_angle"} =>
        /\ call.ret = PoseEstimator_calculate_angle(call.p1, call.p2, call.p3)
        /\ call.ret = calculate_angle(call.p1, call.p2, call.p3)
        /\ call.ret = PoseEstimator_calculate_angle(Flat(call.p1), call.p2, call.p3)
        /\ ~ZeroLengthVector(call.p1, call.p2, call.p3) =>
               /\ call.ret \in 0..180
               /\ Dot(call.p1, call.p2, call.p3) = 0 => call.ret = 90
               /\ Dot(call.p1, call.p2, call.p3) > 0 => call.ret < 90
               /\ Dot(call.p1, call.p2, call.p3) < 0 => call.ret >= 90
               /\ (Cross(call.p1, call.p2, call.p3) = 0
                   /\ Dot(call.p1, call.p2, call.p3) < 0) => call.ret = 180
               /\ (Cross(call.p1, call.p2, call.p3) = 0
                   /\ Dot(call.p1, call.p2, call.p3) > 0) => call.ret = 0

\* p1 = (1, 0), vertex = (0, 0), p3 = (0, 1), with p1 off the image plane
C21_Witness ==
    /\ call.op = "calculate_angle"
    /\ call.p1.x = 1 /\ call.p1.y = 0 /\ call.p1.z # 0
    /\ call.p2.x = 0 /\ call.p2.y = 0
    /\ call.p3.x = 0 /\ call.p3.y = 1
    /\ call.ret = 90

\* p1 and p3 on opposite sides of the vertex
C21_Opposite ==
    /\ call.op = "_calculate_angle"
    /\ call.p1.x = 2 /\ call.p1.y = 0
    /\ call.p2.x = 1 /\ call.p2.y = 0
    /\ call.p3.x = 0 /\ call.p3.y = 0
    /\ call.ret = 180

\* an angle that is neither 0, 90 nor 180
C21_Oblique ==
    /\ call.op = "_calculate_angle"
    /\ call.ret \in 1..89

\* the landmarks are at the same place, whatever their visibility
SamePlace(p, q) == p.x = q.x /\ p.y = q.y /\ p.z = q.z

\* C22: distance(a, b) = distance(b, a) and distance(a, a) = 0, in both
\* copies of the function; the distance is that of x, y and z and does not
\* change with the visibility.
C22_Distance ==
    call.op \in {"_calculate_distance", "calculate_distance"} =>
        /\ call.ret = PoseEstimator_calculate_distance(call.p2, call.p1)
        /\ call.ret = calculate_distance(call.p2, call.p1)
        /\ SamePlace(call.p1, call.p2) => call.ret = 0
        /\ call.ret = 0 => SamePlace(call.p1, call.p2)
        /\ IsDistance(call.ret, call.p1, call.p2)
        /\ \A v \in {0, 99} :
               call.ret = PoseEstimator_calculate_distance(
                              [call.p1 EXCEPT !.visibility = v], call.p2)

\* two landmarks that differ in depth alone
C22_Witness ==
    /\ call.op = "_calculate_distance"
    /\ call.p1.x = call.p2.x
    /\ call.p1.y = call.p2.y
    /\ call.p1.z # call.p2.z
    /\ call.p1.visibility # call.p2.visibility
    /\ call.ret > 0

\* a landmark and itself
C22_Self ==
    /\ call.op = "calculate_distance"
    /\ call.p1 = call.p2
    /\ call.ret = 0

\* the positive affirmation of each exercise
Affirmation(exercise_type) ==
    CASE exercise_type = "Push-up" -> "Great form! Keep it up."
      [] exercise_type = "Squat"   -> "Great squat form! Keep it up."
      [] exercise_type = "Plank"   -> "Great plank form! Hold it steady."
      [] exercise_type = "Lunge"   -> "Great lunge form! Keep it up."

\* C23 (as claimed): for each of the four exercises and every present frame,
\* frames with an undefined elbow or knee angle included, correct is true if
\* and only if the feedback is the exercise's affirmation.
C23_CorrectIffAffirmation ==
    (PoseFormCall /\ call.exercise_type \in {"Push-up", "Squat", "Plank", "Lunge"}) =>
        (call.ret.correct <=> call.ret.feedback = Affirmation(call.exercise_type))

\* what does hold: a correct verdict always carries the affirmation, and
\* with the angle defined the affirmation is given to correct verdicts only
C23_DefinedAngles ==
    (PoseFormCall /\ call.exercise_type \in {"Push-up", "Squat", "Plank", "Lunge"}) =>
        /\ call.ret.correct => call.ret.feedback = Affirmation(call.exercise_type)
        /\ (call.exercise_type = "Push-up" /\ ~IsNaN(call.ret.metrics.elbow_angle)
            /\ call.ret.feedback = Affirmation("Push-up")) => call.ret.correct
        /\ (call.exercise_type = "Squat" /\ ~IsNaN(call.ret.metrics.knee_angle)
            /\ call.ret.feedback = Affirmation("Squat")) => call.ret.correct
        /\ (call.exercise_type = "Lunge" /\ ~IsNaN(call.ret.metrics.front_knee_angle)
            /\ call.ret.feedback = Affirmation("Lunge")) => call.ret.correct
        /\ (call.exercise_type = "Plank"
            /\ call.ret.feedback = Affirmation("Plank")) => call.ret.correct

\* a push-up with the left elbow at the left shoulder: not correct, praised
C23_PushupPraised ==
    /\ FormCallOf("Push-up")
    /\ IsNaN(call.ret.metrics.elbow_angle)
    /\ ~call.ret.correct
    /\ call.ret.feedback = "Great form! Keep it up."

C23_LungePraised ==
    /\ FormCallOf("Lunge")
    /\ IsNaN(call.ret.metrics.front_knee_angle)
    /\ ~call.ret.correct
    /\ call.ret.feedback = "Great lunge form! Keep it up."

\* the plank feedback says sentence: alone, or after the alignment sentence
PlankSays(sentence) ==
    call.ret.feedback \in
        { sentence, "Maintain a straight line from head to heels. " \o sentence }

\* hip.y - shoulder.y of each side
LeftHipDrop == LM("LEFT_HIP").y - LM("LEFT_SHOULDER").y
RightHipDrop == LM("RIGHT_HIP").y - LM("RIGHT_SHOULDER").y

\* C24 (as claimed): the plank's directional message agrees with a side that
\* failed the hip check: "Lower your hips" only if on some side
\* hip.y - shoulder.y <= -0.1, "Raise your hips" only if on some side
\* hip.y - shoulder.y >= 0.1.
C24_PlankDirection ==
    FormCallOf("Plank") =>
        /\ PlankSays("Lower your hips, they're too high.")
               => (LeftHipDrop <= -2 \/ RightHipDrop <= -2)
        /\ PlankSays("Raise your hips, they're too low.")
               => (LeftHipDrop >= 2 \/ RightHipDrop >= 2)

\* what the code does: the left side alone decides the direction
C24_LeftSideDecides ==
    FormCallOf("Plank") =>
        /\ PlankSays("Lower your hips, they're too high.")
               <=> (~call.ret.metrics.hip_position /\ LeftHipDrop < 0)
        /\ PlankSays("Raise your hips, they're too low.")
               <=> (~call.ret.metrics.hip_position /\ LeftHipDrop >= 0)

\* the right hip too high, the left one level: told to raise the hips
C24_WrongDirection ==
    /\ FormCallOf("Plank")
    /\ RightHipDrop <= -2
    /\ LeftHipDrop \in 0..1
    /\ PlankSays("Raise your hips, they're too low.")

\* the name of the same joint on the other side
OtherSide(j) ==
    CASE j = "LEFT_SHOULDER"  -> "RIGHT_SHOULDER"
      [] j = "RIGHT_SHOULDER" -> "LEFT_SHOULDER"
      [] j = "LEFT_ELBOW"     -> "RIGHT_ELBOW"
      [] j = "RIGHT_ELBOW"    -> "LEFT_ELBOW"
      [] j = "LEFT_WRIST"     -> "RIGHT_WRIST"
      [] j = "RIGHT_WRIST"    -> "LEFT_WRIST"
      [] j = "LEFT_HIP"       -> "RIGHT_HIP"
      [] j = "RIGHT_HIP"      -> "LEFT_HIP"
      [] j = "LEFT_KNEE"      -> "RIGHT_KNEE"
      [] j = "RIGHT_KNEE"     -> "LEFT_KNEE"
      [] j = "LEFT_ANKLE"     -> "RIGHT_ANKLE"
      [] j = "RIGHT_ANKLE"    -> "LEFT_ANKLE"

\* the frame with the left and the right landmark of every pair exchanged
Exchanged(results) ==
    [results EXCEPT !.landmark = [j \in DOMAIN results.landmark |->
                                      results.landmark[OtherSide(j)]]]

\* C25 (as claimed): for Push-up, Squat and Lunge the verdict of a frame is
\* the verdict of the frame with left and right exchanged, also when the
\* angle of one side is undefined.
C25_SidesExchanged ==
    (PoseFormCall /\ call.exercise_type \in {"Push-up", "Squat", "Lunge"}) =>
        call.ret = analyze_exercise_form(Exchanged(call.results), call.exercise_type)

\* what does hold: the same when the elbow and knee angles of both sides
\* are defined
C25_DefinedAngles ==
    (PoseFormCall /\ call.exercise_type \in {"Push-up", "Squat", "Lunge"}
     /\ (call.exercise_type = "Push-up"
            => (~IsNaN(LeftElbowAngle) /\ ~IsNaN(RightElbowAngle)))
     /\ (call.exercise_type \in {"Squat", "Lunge"}
            => (~IsNaN(LeftKneeAngle) /\ ~IsNaN(RightKneeAngle)))) =>
        call.ret = analyze_exercise_form(Exchanged(call.results), call.exercise_type)

\* a push-up found correct that is not so with the sides exchanged
C25_CorrectOneWayOnly ==
    /\ FormCallOf("Push-up")
    /\ call.ret.correct
    /\ IsNaN(LeftElbowAngle) # IsNaN(RightElbowAngle)
    /\ ~analyze_exercise_form(Exchanged(call.results), "Push-up").correct

\* the frame with every landmark moved to depth z and given visibility v
Recast(results, z, v) ==
    [results EXCEPT !.landmark = [j \in DOMAIN results.landmark |->
        [x |-> results.landmark[j].x, y |-> results.landmark[j].y,
         z |-> z, visibility |-> v]]]

\* the frame with every landmark moved to depth z
AtDepth(results, z) ==
    [results EXCEPT !.landmark = [j \in DOMAIN results.landmark |->
        [results.landmark[j] EXCEPT !.z = z]]]

\* the depths and visibilities a frame is recast to: in the image plane and
\* hidden, behind it and seen
Recasts == { [z |-> 0, v |-> 0], [z |-> 7, v |-> 99] }

\* C26: the verdict of a present frame depends on x and y only: every frame
\* that differs from it in z and visibility alone has the same verdict, for
\* every exercise type.
C26_VerdictFromXY ==
    PoseFormCall =>
        \A r \in Recasts :
            call.ret = analyze_exercise_form(Recast(call.results, r.z, r.v), call.exercise_type)

\* a verdict for a frame with a landmark off the image plane, whose
\* measurements are not those of the same frame in the plane
C26_Witness ==
    /\ PoseFormCall
    /\ \E j \in DOMAIN call.results.landmark : call.results.landmark[j].z # 0
    /\ call.ret = analyze_exercise_form(AtDepth(call.results, 0), call.exercise_type)
    /\ calculate_body_measurements(call.results)
         # calculate_body_measurements(AtDepth(call.results, 0))

\* the labels of the rule-based table
RuleLabels == {"Inverted Triangle", "Pear", "Rectangle"}

\* a call of ModelManager.classify_body_type that took the rule-based branch
RuleBasedClassify ==
    call.op = "classify_body_type" /\ body_model = "None"

\* a call of BodyAnalyzer.analyze_body_type that took the rule-based branch
RuleBasedAnalyze ==
    call.op = "analyze_body_type" /\ (model = "None" \/ call.predict.raises)

\* C27 (as claimed): the rule-based fallback names a body type only for
\* measurements that contain shoulder_hip_ratio; for the empty measurement
\* set of an absent frame neither classifier reports a body type.
C27_NoTypeWithoutRatio ==
    /\ (RuleBasedClassify /\ "shoulder_hip_ratio" \notin DOMAIN call.measurements)
           => call.ret \notin RuleLabels
    /\ (RuleBasedAnalyze /\ "shoulder_hip_ratio" \notin DOMAIN call.measurements)
           => call.ret[1] \notin RuleLabels

\* what the code does: a missing ratio is read as 0, which the table calls Pear
C27_MissingRatioIsPear ==
    /\ (RuleBasedClassify /\ "shoulder_hip_ratio" \notin DOMAIN call.measurements)
           => call.ret = "Pear"
    /\ (RuleBasedAnalyze /\ "shoulder_hip_ratio" \notin DOMAIN call.measurements)
           => call.ret[1] = "Pear"

\* the analyzer calls the empty measurement set of an absent frame a Pear
C27_AbsentFrameIsPear ==
    /\ RuleBasedAnalyze
    /\ call.measurements = EmptyDict
    /\ call.ret[1] = "Pear"

\* a call of add_progress_entry has just been made
AddCalled == call.op = "idle" /\ call'.op = "add_progress_entry"

\* what holds of add_progress_entry: a True return has appended exactly one
\* row, the entry, behind the earlier rows; a False return has left
\* progress_data as it was
C28_TrueIffAdded ==
    [][AddCalled =>
        IF call'.ret
        THEN progress_data' = Append(progress_data,
                                     [date |-> to_datetime(call'.date).value,
                                      exercise |-> call'.exercise])
        ELSE progress_data' = progress_data]_vars

\* C28 (as claimed): after any sequence of add_progress_entry and
\* clear_progress_data calls, get_statistics gives a total_records equal to
\* the number of adds that returned True since the last clear, the rows the
\* tracker loaded from its file counted with them.
C28_TotalRecords ==
    call.op = "get_statistics" =>
        (~call.ret.raises /\ call.ret.total_records = true_adds)

\* what holds: the same of every get_statistics that returns
C28_TotalWhenReturned ==
    (call.op = "get_statistics" /\ ~call.ret.raises) =>
        call.ret.total_records = true_adds

\* an entry with an empty date was added with True, and get_statistics raises
C28_StatisticsRaise ==
    /\ call.op = "get_statistics"
    /\ call.ret.raises
    /\ true_adds = Len(progress_data)
    /\ true_adds > 0

\* a False return for a date that is not one, behind an entry that was added
C28_Unparseable ==
    /\ call.op = "add_progress_entry"
    /\ ~call.ret
    /\ true_adds = 1
    /\ Len(progress_data) = 1

\* C29 (as claimed): the CSV file holds the rows of progress_data, so that a
\* new ProgressTracker loads the same rows, and no add or clear returns True
\* when its write to the file failed.
C29_FileHoldsData ==
    /\ load_progress_data(progress_file) = progress_data
    /\ (call.op \in {"add_progress_entry", "clear_progress_data"} /\ call.ret)
           => call.write = "ok"

\* what holds: after an add or a clear whose write went through, the file
\* loads as the rows of progress_data
C29_WrittenFileHoldsData ==
    (call.op \in {"add_progress_entry", "clear_progress_data"} /\ call.ret
     /\ call.write = "ok")
        => load_progress_data(progress_file) = progress_data

\* True was returned for an add whose write failed; the file lacks the entry
C29_TrueWithoutWrite ==
    /\ call.op = "add_progress_entry"
    /\ call.ret
    /\ call.write = "fails"
    /\ Len(load_progress_data(progress_file)) < Len(progress_data)

\* a training that did not get to its end
FailedTraining ==
    call.op = "train_exercise_model" /\ call.outcome # "ok"

\* C30 (as claimed): feature_names is the column list the current
\* exercise_model was trained on, a training that failed has left both as
\* they were, and identify_exercise hands the model the columns it was
\* trained on.
C30_MatchingPair ==
    /\ exercise_model # "None" => feature_names = trained_on
    /\ FailedTraining =>
           /\ exercise_model = call.before.exercise_model
           /\ feature_names = call.before.feature_names
           /\ trained_on = call.before.trained_on
    /\ (call.op = "identify_exercise" /\ call.model_input.called) =>
           DOMAIN call.model_input.row = trained_on.names

\* what holds: a training that got to its end leaves the model and the names
\* of its columns, and one without the 'exercise' column changes nothing
C30_CompletedTraining ==
    /\ (call.op = "train_exercise_model" /\ call.outcome = "ok") =>
           /\ exercise_model = "loaded"
           /\ feature_names = call.training_data.columns
           /\ trained_on = call.training_data.columns
    /\ (call.op = "train_exercise_model" /\ call.outcome = "no exercise column") =>
           /\ exercise_model = call.before.exercise_model
           /\ feature_names = call.before.feature_names
           /\ trained_on = call.before.trained_on

\* fit raised: the model is the earlier one, the names are the new columns
C30_NamesOfFailedFit ==
    /\ call.op = "train_exercise_model"
    /\ call.outcome = "fit raises"
    /\ exercise_model = "loaded"
    /\ trained_on = call.before.trained_on
    /\ feature_names = call.training_data.columns
    /\ feature_names # trained_on

\* identify_exercise hands the model columns it was not trained on
C30_OtherModelsFeatures ==
    /\ call.op = "identify_exercise"
    /\ call.model_input.called
    /\ DOMAIN call.model_input.row # trained_on.names

====
